---- MODULE Spec2Model ----
(***************************************************************************)
(* Model of the parallel B*-tree floorplanner.                             *)
(*                                                                         *)
(*   TreeSpec : one Floorplan object (initial_tree, perturb, pack) over a  *)
(*              small block catalogue with integer dimensions.             *)
(*   Spec     : one ParallelSA object (run and its three strategies) with  *)
(*              W OpenMP workers; a floorplan is carried as its cost.      *)
(***************************************************************************)
EXTENDS Integers, Sequences, FiniteSets, TLC

-----------------------------------------------------------------------------
(* Bounds of the model *)

\* largest catalogue size explored by TreeSpec
MaxBlocks == 3

\* number of OpenMP threads of the team (omp_get_max_threads)
NumWorkers == 2

\* the costs calculate_cost can return are 1..MaxCost
MaxCost == 2

\* proposals per temperature step / exchange period (factor * n)
StepsPerTemp == 2

\* latest clock reading, in ticks after start_time, at which an RNG is built
MaxStamp == 2

\* steps_per_temp_factor ranges over num/den, num in 1..MaxFactorNum
MaxFactorNum == 4

\* number of threads, hence of replicas, when the exchange rounds are taken alone
ExchangeSlots == 4

\* longest block name compared
MaxNameLen == 3

\* longest chip side for which the cost is evaluated
MaxChipSide == 100

\* lines of an input file, characters after the name on a line, and shape
\* variants collected for one block before the model stops following the parser
MaxLines == 2
MaxRestLen == 3
MaxVariants == 4

-----------------------------------------------------------------------------
(* Floorplan state (Floorplan.h) *)

VARIABLES blocks, tree, root_id, chip_width, chip_height, chip_area, ub, lastCall

fpvars == <<blocks, tree, root_id, chip_width, chip_height, chip_area, ub, lastCall>>

(* ParallelSA state (ParallelSA.h) and the locals of its workers *)

VARIABLES strategy, main, elapsed, global_best_fp, lock, events, replaced,
          pc, best_fp_this_thread, current_fp, best_in_run, T, step, accepted,
          candidates, replicas, xi

savars == <<strategy, main, elapsed, global_best_fp, lock, events, replaced,
            pc, best_fp_this_thread, current_fp, best_in_run, T, step, accepted,
            candidates, replicas, xi>>

(* What a strategy invocation fixes or accumulates: which candidates of a
   worker's vector were perturbed, the ledger's cost when run() was called,
   the lowest cost each worker has evaluated, the compare-and-replace
   executions of each worker, the temperature ladder of tempering, the costs
   of the initial tree and of the accepted proposals of each worker's SA run *)

VARIABLES perturbed, ledger0, found, merges, temperatures, kept

runvars == <<perturbed, ledger0, found, merges, temperatures, kept>>

(* The set-up of an invocation taken alone: the clock, the seeds of the
   RNGs, the hyperparameter steps_per_temp_factor and the batch size *)

VARIABLES now, seed, master_seed, sa_params, steps

setupvars == <<now, seed, master_seed, sa_params, steps>>

(* One exchange round taken alone: where each replica sat when the round
   started, and the swaps attempted so far *)

VARIABLES origin, attempts

exchvars == <<origin, attempts>>

(* Functions of Floorplan taken alone (the name comparator, the parser, the
   cost, a detach/attach pair): the argument of the call under study and
   what the call returned or left behind *)

VARIABLES arg, ret

callvars == <<arg, ret>>

auxvars == <<runvars, setupvars, exchvars, callvars>>

vars == <<fpvars, savars, auxvars>>

\* the null link of Node::parent/left/right and of Floorplan::root_id
NIL == 0 - 1

\* shape variants (width, height) of the blocks of the catalogues explored;
\* a catalogue with n blocks is the first n entries
BlockTable ==
    <<  << [width |-> 1, height |-> 2], [width |-> 2, height |-> 1] >>,
        << [width |-> 2, height |-> 1] >>,
        << [width |-> 1, height |-> 1], [width |-> 3, height |-> 1] >>,
        << [width |-> 1, height |-> 3] >>,
        << [width |-> 2, height |-> 2] >> >>

Catalogue(n) == [b \in 0..(n - 1) |-> BlockTable[b + 1]]

NumBlocks == Cardinality(DOMAIN blocks)
NodeIds == DOMAIN tree
NumDims(b) == Len(blocks[b])
Dim(b, d) == blocks[b][d + 1]

Max2(a, b) == IF a > b THEN a ELSE b

SetMax(S) == CHOOSE m \in S : \A k \in S : k <= m
SetMin(S) == CHOOSE m \in S : \A k \in S : m <= k

\* struct Node with its default member initialisers
Node(b) ==
    [block_id |-> b, parent |-> NIL, left |-> NIL, right |-> NIL,
     current_dim_idx |-> 0, width |-> 0, height |-> 0, x |-> 0, y |-> 0]

Permutations0(n) ==
    {p \in [0..(n - 1) -> 0..(n - 1)] : \A i, j \in 0..(n - 1) : i # j => p[i] # p[j]}

\* an initial tree chained through the right links
initial_tree_RightSpine(p, d) ==
    [i \in 0..(NumBlocks - 1) |->
        [Node(p[i]) EXCEPT
            !.current_dim_idx = d[i],
            !.width = Dim(p[i], d[i]).width,
            !.height = Dim(p[i], d[i]).height,
            !.right = IF i < NumBlocks - 1 THEN i + 1 ELSE NIL,
            !.parent = IF i > 0 THEN i - 1 ELSE NIL]]

\* Floorplan::initial_tree with shuffle result p and dim_dist draws d
initial_tree(p, d) ==
    [i \in 0..(NumBlocks - 1) |->
        [Node(p[i]) EXCEPT
            !.current_dim_idx = d[i],
            !.width = Dim(p[i], d[i]).width,
            !.height = Dim(p[i], d[i]).height,
            !.left = IF i < NumBlocks - 1 THEN i + 1 ELSE NIL,
            !.parent = IF i > 0 THEN i - 1 ELSE NIL]]

-----------------------------------------------------------------------------
(* detach / attach / perturb *)

RECURSIVE Rightmost(_, _)
\* the walk `while (tree[rightmost].right != -1)` of detach
Rightmost(t, k) == IF t[k].right = NIL THEN k ELSE Rightmost(t, t[k].right)

\* the graft of u's right subtree under the rightmost descendant of its left child
DetachGraft(t, u) ==
    LET l == t[u].left
        r == t[u].right
    IN  IF l # NIL /\ r # NIL
        THEN LET rm == Rightmost(t, l)
             IN  [t EXCEPT ![rm].right = r, ![r].parent = rm]
        ELSE t

\* Floorplan::detach(u): the tree and root after it, and the promoted child
detach(t, root, u) ==
    LET p == t[u].parent
        l == t[u].left
        r == t[u].right
        t1 == DetachGraft(t, u)
        promoted_child == IF l # NIL THEN l ELSE r
        t2 == IF p # NIL
              THEN LET t2a == IF t1[p].left = u
                              THEN [t1 EXCEPT ![p].left = promoted_child]
                              ELSE [t1 EXCEPT ![p].right = promoted_child]
                   IN  IF promoted_child # NIL
                       THEN [t2a EXCEPT ![promoted_child].parent = p]
                       ELSE t2a
              ELSE IF promoted_child # NIL
                   THEN [t1 EXCEPT ![promoted_child].parent = NIL]
                   ELSE t1
        root2 == IF p # NIL THEN root ELSE promoted_child
    IN  [tree |-> [t2 EXCEPT ![u].parent = NIL, ![u].left = NIL, ![u].right = NIL],
         root_id |-> root2,
         promoted |-> promoted_child]

\* attach that leaves the former child's parent link pointing at p
AttachOldChild_Stale(t, u, old) == t

\* the relinking of p's former child under u in attach
AttachOldChild(t, u, old) == IF old # NIL THEN [t EXCEPT ![old].parent = u] ELSE t

\* an attach that ignores the side and always links u as the left child
attach_AlwaysLeft(t, u, p, is_left) ==
    LET t1 == [t EXCEPT ![u].parent = p]
        old_left == t1[p].left
        t2 == [t1 EXCEPT ![u].left = old_left]
        t3 == AttachOldChild(t2, u, old_left)
    IN  [t3 EXCEPT ![p].left = u]

\* Floorplan::attach(u, p, is_left)
attach(t, u, p, is_left) ==
    LET t1 == [t EXCEPT ![u].parent = p]
    IN  IF is_left
        THEN LET old_left == t1[p].left
                 t2 == [t1 EXCEPT ![u].left = old_left]
                 t3 == AttachOldChild(t2, u, old_left)
             IN  [t3 EXCEPT ![p].left = u]
        ELSE LET old_right == t1[p].right
                 t2 == [t1 EXCEPT ![u].right = old_right]
                 t3 == AttachOldChild(t2, u, old_right)
             IN  [t3 EXCEPT ![p].right = u]

\* the trailing loop of perturb: cached (width,height) from the selected variant
RefreshDims(t) ==
    [i \in DOMAIN t |->
        [t[i] EXCEPT !.width = Dim(t[i].block_id, t[i].current_dim_idx).width,
                     !.height = Dim(t[i].block_id, t[i].current_dim_idx).height]]

\* Floorplan::perturb with the draws op (op_dist), a and b (node_dist: the
\* node / n1,n2 / u_id,p_id), d (dim_dist) and s (side_dist)
perturb(t, root, op, a, b, d, s) ==
    IF Cardinality(DOMAIN t) <= 1 THEN [tree |-> t, root_id |-> root]
    ELSE IF op <= 3
    THEN [tree |-> RefreshDims(
                     IF NumDims(t[a].block_id) > 1
                     THEN [t EXCEPT ![a].current_dim_idx = d]
                     ELSE t),
          root_id |-> root]
    ELSE IF op <= 7
    THEN [tree |-> RefreshDims(
                     IF a # b
                     THEN [t EXCEPT ![a].block_id = t[b].block_id,
                                    ![b].block_id = t[a].block_id,
                                    ![a].current_dim_idx = t[b].current_dim_idx,
                                    ![b].current_dim_idx = t[a].current_dim_idx]
                     ELSE t),
          root_id |-> root]
    ELSE LET det == detach(t, root, a)
         IN  [tree |-> RefreshDims(attach(det.tree, a, b, s = 0)),
              root_id |-> det.root_id]

-----------------------------------------------------------------------------
(* pack / dfs_pack: the contour is a std::map<double,double>, here a function *)
(* from its keys to the heights                                              *)

\* contour.end()
END == NIL

\* contour.begin() (the contour is never empty)
Begin(c) == SetMin(DOMAIN c)

\* contour.lower_bound(k)
LowerBound(c, k) ==
    LET S == {q \in DOMAIN c : q >= k} IN IF S = {} THEN END ELSE SetMin(S)

\* contour.upper_bound(k)
UpperBound(c, k) ==
    LET S == {q \in DOMAIN c : q > k} IN IF S = {} THEN END ELSE SetMin(S)

\* std::prev(it)
Prev(c, it) == SetMax({q \in DOMAIN c : it = END \/ q < it})

\* `it->first` is read on contour.end() at line 137: undefined behaviour
ScanDerefsEnd(c, x_start) == LowerBound(c, x_start) = END /\ END # Begin(c)

\* lines 136-137: the entry that seeds the scan; g is what the comparison
\* `it->first > x_start` yields when `it` is contour.end()
ScanStart(c, x_start, g) ==
    LET it == LowerBound(c, x_start)
    IN  IF it = END
        THEN (IF g THEN Prev(c, it) ELSE END)
        ELSE IF it # Begin(c) /\ it > x_start THEN Prev(c, it) ELSE it

\* a scan that reads the seeding entry only
ScanMaxY_FirstOnly(c, it, x_end) == IF it = END THEN 0 ELSE c[it]

\* lines 134, 138-141: the maximum height of the entries from `it` with key < x_end
ScanMaxY(c, it, x_end) ==
    IF it = END THEN 0
    ELSE SetMax({0} \cup {c[q] : q \in {k \in DOMAIN c : k >= it /\ k < x_end}})

\* a right edge that forgets the height the contour had there
YAtXEnd_Zero(c, x_end) == 0

\* lines 145-147: the height at the right edge
YAtXEnd(c, x_end) ==
    LET end_it == UpperBound(c, x_end)
    IN  IF end_it # Begin(c) THEN c[Prev(c, end_it)] ELSE 0

\* lines 149-150: erase the keys in [x_start, x_end)
EraseRange(c, x_start, x_end) ==
    [q \in {k \in DOMAIN c : ~(k >= x_start /\ k < x_end)} |-> c[q]]

\* lines 152-153: `if (!contour.count(k) || contour[k] < v) contour[k] = v`
RaiseTo(c, k, v) ==
    IF k \notin DOMAIN c \/ c[k] < v
    THEN [q \in (DOMAIN c) \cup {k} |-> IF q = k THEN v ELSE c[q]]
    ELSE c

\* a placement that keeps the stored x of a node without parent
CurrentX_RootKeepsX(t, node_id) ==
    LET p_id == t[node_id].parent
    IN  IF p_id # NIL
        THEN (IF t[p_id].left = node_id THEN t[p_id].x + t[p_id].width ELSE t[p_id].x)
        ELSE t[node_id].x

\* lines 125-131: x of a node from its parent's placement
CurrentX(t, node_id) ==
    LET p_id == t[node_id].parent
    IN  IF p_id # NIL
        THEN (IF t[p_id].left = node_id THEN t[p_id].x + t[p_id].width ELSE t[p_id].x)
        ELSE 0

\* lines 125-153: the placement of one node and the update of the contour
PlaceNode(st, node_id, g) ==
    LET t == st.tree
        contour == st.contour
        current_x == CurrentX(t, node_id)
        x_start == current_x
        x_end == current_x + t[node_id].width
        max_y == ScanMaxY(contour, ScanStart(contour, x_start, g), x_end)
        new_y_level == max_y + t[node_id].height
        y_at_x_end == YAtXEnd(contour, x_end)
        c1 == EraseRange(contour, x_start, x_end)
        c2 == RaiseTo(c1, x_start, new_y_level)
        c3 == RaiseTo(c2, x_end, y_at_x_end)
    IN  [tree |-> [t EXCEPT ![node_id].x = current_x, ![node_id].y = max_y],
         contour |-> c3,
         ub |-> st.ub \/ ScanDerefsEnd(contour, x_start)]

RECURSIVE dfs_pack(_, _, _)
\* Floorplan::dfs_pack
dfs_pack(st, node_id, g) ==
    IF node_id = NIL THEN st
    ELSE LET st1 == PlaceNode(st, node_id, g)
         IN  dfs_pack(dfs_pack(st1, st1.tree[node_id].left, g), st1.tree[node_id].right, g)

\* Floorplan::pack: the tree, the chip totals and whether undefined behaviour was met
pack(t, root, cw, ch, ca, g) ==
    IF root = NIL
    THEN [tree |-> t, chip_width |-> cw, chip_height |-> ch, chip_area |-> ca, ub |-> FALSE]
    ELSE LET st == dfs_pack([tree |-> t, contour |-> [q \in {0} |-> 0], ub |-> FALSE], root, g)
             w == SetMax({0} \cup {st.tree[i].x + st.tree[i].width : i \in DOMAIN t})
             h == SetMax({0} \cup {st.tree[i].y + st.tree[i].height : i \in DOMAIN t})
         IN  [tree |-> st.tree, chip_width |-> w, chip_height |-> h,
              chip_area |-> w * h, ub |-> st.ub]

-----------------------------------------------------------------------------
(* ParallelSA: constants of the model and the constructed object *)

\* thread ids of the team, omp_get_thread_num()
Workers == 0..(NumWorkers - 1)

\* the thread that executes `#pragma omp master` blocks
Master == 0

\* costs of packed and evaluated floorplans
Costs == 1..MaxCost

\* the cost 1e18 of a floorplan that was never evaluated
Huge == MaxCost + 1

\* a local Floorplan that is not in scope
NoFp == 0

\* sa_params.T_start and sa_params.T_min; cooling halves the temperature
T_start == 2
T_min == 1
Cool(t) == t \div 2

\* no thread is inside `#pragma omp critical`
NoOwner == NIL

\* ParallelSA after its constructor, no team running
SAConstructed ==
    /\ strategy = "none"
    /\ main = "constructed"
    /\ elapsed = FALSE
    /\ global_best_fp = Huge
    /\ lock = NoOwner
    /\ events = << >>
    /\ replaced = 0
    /\ pc = [w \in Workers |-> "idle"]
    /\ best_fp_this_thread = [w \in Workers |-> NoFp]
    /\ current_fp = [w \in Workers |-> NoFp]
    /\ best_in_run = [w \in Workers |-> NoFp]
    /\ T = [w \in Workers |-> 0]
    /\ step = [w \in Workers |-> 0]
    /\ accepted = [w \in Workers |-> FALSE]
    /\ candidates = [w \in Workers |-> [k \in Workers |-> NoFp]]
    /\ replicas = [k \in Workers |-> NoFp]
    /\ xi = 0
    /\ perturbed = [w \in Workers |-> {}]
    /\ ledger0 = Huge
    /\ found = [w \in Workers |-> Huge]
    /\ merges = [w \in Workers |-> 0]
    /\ temperatures = << >>
    /\ kept = [w \in Workers |-> {}]

\* no set-up and no exchange round is being looked at on its own
Aside ==
    /\ now = 0
    /\ seed = [w \in Workers |-> NIL]
    /\ master_seed = NIL
    /\ sa_params = [num |-> 1, den |-> 1]
    /\ steps = NIL
    /\ origin = << >>
    /\ attempts = << >>
    /\ arg = NIL
    /\ ret = NIL

-----------------------------------------------------------------------------
(* TreeSpec: the life of one Floorplan in an SA run *)

\* a Floorplan after read_blocks: a catalogue, no tree
TreeInit ==
    /\ \E n \in 1..MaxBlocks : blocks = Catalogue(n)
    /\ SAConstructed
    /\ Aside
    /\ tree = [i \in {} |-> Node(0)]
    /\ root_id = NIL
    /\ chip_width = 0 /\ chip_height = 0 /\ chip_area = 0
    /\ ub = FALSE
    /\ lastCall = [f |-> "read_blocks", op |-> NIL]

\* SIZE_MAX, the value of `tree.size() - 1` in size_t for an empty tree
\* (2^64 - 1 in the build; any value above every node index behaves alike)
SIZE_MAX == 2147483647

\* `tree.size() - 1` computed in size_t
ChainBound(n) == IF n >= 1 THEN n - 1 ELSE SIZE_MAX

\* initial_tree writes a node outside the array of n nodes: tree[root_id] at
\* line 88, or tree[i], tree[i + 1] for an i below the bound of the chaining loop
InitialTreeOutOfBounds(n) ==
    \/ 0 > n - 1
    \/ ChainBound(n) > 0 /\ ChainBound(n) > n - 1

\* `Floorplan current_fp = base_fp; current_fp.initial_tree(rng);`
InitialTree ==
    /\ lastCall.f \in {"read_blocks", "pack"}
    /\ \E p \in Permutations0(NumBlocks) :
       \E d \in [0..(NumBlocks - 1) -> 0..1] :
          /\ \A i \in 0..(NumBlocks - 1) : d[i] < NumDims(p[i])
          /\ tree' = initial_tree(p, d)
    /\ root_id' = 0
    /\ chip_width' = 0 /\ chip_height' = 0 /\ chip_area' = 0
    /\ lastCall' = [f |-> IF InitialTreeOutOfBounds(NumBlocks)
                            THEN "fault" ELSE "initial_tree",
                    op |-> NIL]
    /\ ub' = (ub \/ InitialTreeOutOfBounds(NumBlocks))
    /\ UNCHANGED blocks
    /\ UNCHANGED savars
    /\ UNCHANGED auxvars

\* `next_fp.perturb(rng)` on a copy of a packed floorplan
Perturb ==
    /\ lastCall.f = "pack"
    /\ \E op \in 0..10 :
       \E a \in NodeIds, b \in NodeIds, d \in 0..1, s \in 0..1 :
          /\ op <= 3 => (b = a /\ s = 0 /\ d < NumDims(tree[a].block_id)
                         /\ (NumDims(tree[a].block_id) = 1 \/ NumBlocks <= 1 => d = 0))
          /\ (op > 3 /\ op <= 7) => (d = 0 /\ s = 0)
          /\ op > 7 => (d = 0 /\ (NumBlocks > 1 => b # a))
          /\ NumBlocks <= 1 => (a = 0 /\ b = 0 /\ d = 0 /\ s = 0)
          /\ LET r == perturb(tree, root_id, op, a, b, d, s)
             IN  /\ tree' = r.tree
                 /\ root_id' = r.root_id
          /\ lastCall' = [f |-> "perturb", op |-> op]
    /\ UNCHANGED <<blocks, chip_width, chip_height, chip_area, ub>>
    /\ UNCHANGED savars
    /\ UNCHANGED auxvars

\* `pack()` after initial_tree or perturb
Pack ==
    /\ lastCall.f \in {"initial_tree", "perturb"}
    /\ \E g \in BOOLEAN :
          LET r == pack(tree, root_id, chip_width, chip_height, chip_area, g)
          IN  /\ tree' = r.tree
              /\ chip_width' = r.chip_width
              /\ chip_height' = r.chip_height
              /\ chip_area' = r.chip_area
              /\ ub' = (ub \/ r.ub)
    /\ lastCall' = [f |-> "pack", op |-> NIL]
    /\ UNCHANGED <<blocks, root_id>>
    /\ UNCHANGED savars
    /\ UNCHANGED auxvars

TreeNext == InitialTree \/ Perturb \/ Pack

TreeSpec == TreeInit /\ [][TreeNext]_vars

\* a Floorplan after read_blocks on a file of 0 .. MaxBlocks lines
AnySizeInit ==
    /\ \E n \in 0..MaxBlocks : blocks = Catalogue(n)
    /\ SAConstructed
    /\ Aside
    /\ tree = [i \in {} |-> Node(0)]
    /\ root_id = NIL
    /\ chip_width = 0 /\ chip_height = 0 /\ chip_area = 0
    /\ ub = FALSE
    /\ lastCall = [f |-> "read_blocks", op |-> NIL]

AnySizeSpec == AnySizeInit /\ [][TreeNext]_vars

-----------------------------------------------------------------------------
(* Properties of the Floorplan operations *)

RECURSIVE ReachFrom(_, _, _)
\* the nodes reached from the set R by following left/right links k times
ReachFrom(t, R, k) ==
    IF k = 0 THEN R
    ELSE ReachFrom(t,
                   R \cup {c \in DOMAIN t : \E q \in R : t[q].left = c \/ t[q].right = c},
                   k - 1)

\* the tree-state invariants of the data model
TreeStateInv ==
    /\ NodeIds = 0..(NumBlocks - 1)
    /\ \A b \in 0..(NumBlocks - 1) :
          Cardinality({i \in NodeIds : tree[i].block_id = b}) = 1
    /\ root_id \in NodeIds
    /\ tree[root_id].parent = NIL
    /\ \A i \in NodeIds \ {root_id} :
          /\ tree[i].parent \in NodeIds
          /\ tree[tree[i].parent].left = i \/ tree[tree[i].parent].right = i
    /\ ReachFrom(tree, {root_id}, NumBlocks) = NodeIds
    /\ \A i \in NodeIds :
          /\ tree[i].current_dim_idx \in 0..(NumDims(tree[i].block_id) - 1)
          /\ tree[i].width = Dim(tree[i].block_id, tree[i].current_dim_idx).width
          /\ tree[i].height = Dim(tree[i].block_id, tree[i].current_dim_idx).height

\* C1: after any perturb of a tree with n >= 2 nodes the tree has n nodes, each
\* block is in exactly one node, the root has no parent, every other node is
\* a child of its parent, every node is reachable from the root and the
\* cached (width,height) are those of the selected variant.
C1_PerturbKeepsTreeInv ==
    (lastCall.f = "perturb" /\ NumBlocks >= 2) => TreeStateInv

\* a move perturbation has replaced the root of a three-node tree and left a
\* node with two children
C1_Witness ==
    /\ lastCall.f = "perturb" /\ lastCall.op > 7
    /\ NumBlocks = 3
    /\ root_id # 0
    /\ \E i \in NodeIds : tree[i].left # NIL /\ tree[i].right # NIL

Overlap(a, b) ==
    /\ a.x < b.x + b.width /\ b.x < a.x + a.width
    /\ a.y < b.y + b.height /\ b.y < a.y + a.height

\* C2: after pack every rectangle lies inside [0,chip_width] x [0,chip_height]
\* and no two rectangles have overlapping interiors.
C2_PackLegal ==
    lastCall.f = "pack" =>
        /\ \A i \in NodeIds :
              /\ tree[i].x >= 0 /\ tree[i].y >= 0
              /\ tree[i].x + tree[i].width <= chip_width
              /\ tree[i].y + tree[i].height <= chip_height
        /\ \A i, j \in NodeIds : i # j => ~Overlap(tree[i], tree[j])

\* a packed three-node tree in which a block wider than its parent is stacked
\* on a block next to a taller one
C2_Witness ==
    /\ lastCall.f = "pack"
    /\ NumBlocks = 3
    /\ \E i, j, k \in NodeIds :
          /\ tree[i].parent = NIL /\ tree[i].left = j /\ tree[i].right = k
          /\ tree[j].height > tree[i].height
          /\ tree[k].width > tree[i].width
          /\ tree[k].y = tree[j].height

RECURSIVE PreOrder(_, _)
\* the order in which dfs_pack places the nodes
PreOrder(t, k) ==
    IF k = NIL THEN << >>
    ELSE <<k>> \o PreOrder(t, t[k].left) \o PreOrder(t, t[k].right)

\* the maximum top edge of the nodes placed before position k of the
\* pre-order whose x-interval meets that of the k-th node, or 0
TopBelow(t, order, k) ==
    LET c == t[order[k]]
    IN  SetMax({0} \cup
               {t[order[m]].y + t[order[m]].height :
                  m \in {q \in 1..(k - 1) :
                           /\ t[order[q]].x < c.x + c.width
                           /\ c.x < t[order[q]].x + t[order[q]].width}})

\* C3: pack puts the root at (0,0), a left child at x(p)+width(p), a right
\* child at x(p), and every node at the maximum top edge of the nodes placed
\* before it (pre-order) whose x-interval meets its own, or 0.
C3_PackPlacement ==
    lastCall.f = "pack" =>
        LET order == PreOrder(tree, root_id)
        IN  /\ tree[root_id].x = 0 /\ tree[root_id].y = 0
            /\ \A c \in NodeIds \ {root_id} :
                  LET p == tree[c].parent
                  IN  /\ tree[p].left = c => tree[c].x = tree[p].x + tree[p].width
                      /\ tree[p].right = c => tree[c].x = tree[p].x
            /\ \A k \in 1..Len(order) : tree[order[k]].y = TopBelow(tree, order, k)

\* a packed tree in which a left child rests on a block that is not its parent
C3_Witness ==
    /\ lastCall.f = "pack"
    /\ \E c \in NodeIds :
          /\ tree[c].parent # NIL
          /\ tree[tree[c].parent].left = c
          /\ tree[c].y > 0

-----------------------------------------------------------------------------
(* ParallelSA::run and the three strategies *)

\* the Metropolis test `delta < 0 || exp(-delta / T) > u` with u drawn from
\* [0,1): exp(-delta/T) >= 1 > u when delta <= 0; draw is the outcome of the
\* comparison when delta > 0
MetropolisAccepts(delta, draw) == delta < 0 \/ delta = 0 \/ draw

\* a critical section that does not exclude
CriticalFree_Always == TRUE

\* `#pragma omp critical` can be entered
CriticalFree == lock = NoOwner

\* a comparison with the ledger in the wrong direction
LedgerImproves_Reversed(c) == c > global_best_fp

\* the compare of the compare-and-replace: `x.cost < global_best_fp.cost`
LedgerImproves(c) == c < global_best_fp

\* a best-in-run that follows every accepted proposal
BestInRunAfter_FollowsCurrent(best, acc, c) == IF acc THEN c ELSE best

\* `if (current_fp.cost < best_in_run.cost) best_in_run = current_fp;` inside
\* the accepting branch of the Metropolis test
BestInRunAfter(best, acc, c) == IF acc /\ c < best THEN c ELSE best

\* std::min_element over costs
MinCost(f) == SetMin({f[k] : k \in DOMAIN f})

\* the clock: the deadline start_time + time_limit passes
Tick ==
    /\ main \in {"pt_init", "running"}
    /\ ~elapsed
    /\ elapsed' = TRUE
    /\ UNCHANGED <<strategy, main, global_best_fp, lock, events, replaced,
                   pc, best_fp_this_thread, current_fp, best_in_run, T, step,
                   accepted, candidates, replicas, xi>>
    /\ UNCHANGED fpvars
    /\ UNCHANGED auxvars

\* ParallelSA::run(s) up to the start of the strategy's parallel region
RunStart(s) ==
    /\ main \in {"constructed", "returned"}
    /\ \A w \in Workers : pc[w] \in {"idle", "done"}
    /\ strategy' = s
    /\ elapsed' = FALSE
    /\ events' = << >>
    /\ replaced' = 0
    /\ main' = IF s = "ParallelTempering_Medium" THEN "pt_init" ELSE "running"
    /\ pc' = [w \in Workers |->
                IF s = "MultiStart_Coarse" THEN "ms_outer"
                ELSE IF s = "ParallelMoves_Fine" THEN "pm_outer"
                ELSE "idle"]
    /\ best_fp_this_thread' =
          [w \in Workers |-> IF s = "ParallelTempering_Medium" THEN NoFp ELSE Huge]
    /\ current_fp' = [w \in Workers |-> NoFp]
    /\ best_in_run' = [w \in Workers |-> NoFp]
    /\ T' = [w \in Workers |-> 0]
    /\ step' = [w \in Workers |-> 0]
    /\ accepted' = [w \in Workers |-> FALSE]
    /\ candidates' = [w \in Workers |-> [k \in Workers |-> NoFp]]
    /\ replicas' = [k \in Workers |-> NoFp]
    /\ xi' = 0
    /\ UNCHANGED <<global_best_fp, lock>>
    /\ UNCHANGED fpvars
    /\ perturbed' = [w \in Workers |-> {}]
    /\ ledger0' = global_best_fp
    /\ found' = [w \in Workers |-> Huge]
    /\ merges' = [w \in Workers |-> 0]
    /\ temperatures' = << >>
    /\ kept' = [w \in Workers |-> {}]
    /\ UNCHANGED <<setupvars, exchvars, callvars>>

\* the master thread has left the parallel region: `return global_best_fp`
RunReturn ==
    /\ main = "running"
    /\ pc[Master] = "done"
    /\ main' = "returned"
    /\ UNCHANGED <<strategy, elapsed, global_best_fp, lock, events, replaced,
                   pc, best_fp_this_thread, current_fp, best_in_run, T, step,
                   accepted, candidates, replicas, xi>>
    /\ UNCHANGED fpvars
    /\ UNCHANGED auxvars

(* ---- multistart (coarse) ---- *)

\* the deadline test of the worker's outer loop and the start of an SA run
MsOuter(w) ==
    /\ pc[w] = "ms_outer"
    /\ IF ~elapsed
       THEN \E c \in Costs :
               /\ current_fp' = [current_fp EXCEPT ![w] = c]
               /\ best_in_run' = [best_in_run EXCEPT ![w] = c]
               /\ T' = [T EXCEPT ![w] = T_start]
               /\ accepted' = [accepted EXCEPT ![w] = FALSE]
               /\ pc' = [pc EXCEPT ![w] = "ms_inner"]
               /\ found' = [found EXCEPT ![w] = IF c < @ THEN c ELSE @]
               /\ kept' = [kept EXCEPT ![w] = {c}]
       ELSE /\ pc' = [pc EXCEPT ![w] = "ms_crit_wait"]
            /\ UNCHANGED <<current_fp, best_in_run, T, accepted, found, kept>>
    /\ UNCHANGED <<strategy, main, elapsed, global_best_fp, lock, events, replaced,
                   best_fp_this_thread, step, candidates, replicas, xi>>
    /\ UNCHANGED fpvars
    /\ UNCHANGED <<perturbed, ledger0, merges, temperatures, setupvars, exchvars, callvars>>

\* the test of the temperature loop; on exit the run's best is merged into
\* the worker's best and the run's locals go out of scope
MsInner(w) ==
    /\ pc[w] = "ms_inner"
    /\ IF T[w] > T_min /\ ~elapsed
       THEN /\ step' = [step EXCEPT ![w] = 0]
            /\ pc' = [pc EXCEPT ![w] = "ms_step"]
            /\ UNCHANGED <<best_fp_this_thread, current_fp, best_in_run, T, kept>>
       ELSE /\ best_fp_this_thread' =
                  [best_fp_this_thread EXCEPT
                      ![w] = IF best_in_run[w] < @ THEN best_in_run[w] ELSE @]
            /\ current_fp' = [current_fp EXCEPT ![w] = NoFp]
            /\ best_in_run' = [best_in_run EXCEPT ![w] = NoFp]
            /\ kept' = [kept EXCEPT ![w] = {}]
            /\ T' = [T EXCEPT ![w] = 0]
            /\ step' = [step EXCEPT ![w] = 0]
            /\ pc' = [pc EXCEPT ![w] = "ms_outer"]
    /\ UNCHANGED <<strategy, main, elapsed, global_best_fp, lock, events, replaced,
                   accepted, candidates, replicas, xi>>
    /\ UNCHANGED fpvars
    /\ UNCHANGED <<perturbed, ledger0, found, merges, temperatures, setupvars, exchvars, callvars>>

\* one proposal: copy, perturb, pack, evaluate (cost c), Metropolis; after
\* the last proposal of the batch the temperature is cooled
MsStep(w) ==
    /\ pc[w] = "ms_step"
    /\ \E c \in Costs, draw \in BOOLEAN :
          LET acc == MetropolisAccepts(c - current_fp[w], draw)
          IN  /\ current_fp' = [current_fp EXCEPT ![w] = IF acc THEN c ELSE @]
              /\ best_in_run' =
                    [best_in_run EXCEPT ![w] = BestInRunAfter(@, acc, c)]
              /\ accepted' = [accepted EXCEPT ![w] = @ \/ acc]
              /\ found' = [found EXCEPT ![w] = IF c < @ THEN c ELSE @]
              /\ kept' = [kept EXCEPT ![w] = IF acc THEN @ \cup {c} ELSE @]
    /\ step' = [step EXCEPT ![w] = @ + 1]
    /\ IF step[w] + 1 < StepsPerTemp
       THEN UNCHANGED <<T, pc>>
       ELSE /\ T' = [T EXCEPT ![w] = Cool(@)]
            /\ pc' = [pc EXCEPT ![w] = "ms_inner"]
    /\ UNCHANGED <<strategy, main, elapsed, global_best_fp, lock, events, replaced,
                   best_fp_this_thread, candidates, replicas, xi>>
    /\ UNCHANGED fpvars
    /\ UNCHANGED <<perturbed, ledger0, merges, temperatures, setupvars, exchvars, callvars>>

\* entry of a worker into `#pragma omp critical`
CritEnter(w, from, to) ==
    /\ pc[w] = from
    /\ CriticalFree
    /\ lock' = w
    /\ pc' = [pc EXCEPT ![w] = to]
    /\ UNCHANGED <<strategy, main, elapsed, global_best_fp, events, replaced,
                   best_fp_this_thread, current_fp, best_in_run, T, step,
                   accepted, candidates, replicas, xi>>
    /\ UNCHANGED fpvars
    /\ UNCHANGED auxvars

\* `if (best_fp_this_thread.cost < global_best_fp.cost)`; the section is left
\* when the test fails
CritCompare(w, from, to) ==
    /\ pc[w] = from
    /\ IF LedgerImproves(best_fp_this_thread[w])
       THEN /\ pc' = [pc EXCEPT ![w] = to]
            /\ UNCHANGED lock
       ELSE /\ pc' = [pc EXCEPT ![w] = "end"]
            /\ lock' = NoOwner
    /\ UNCHANGED <<strategy, main, elapsed, global_best_fp, events, replaced,
                   best_fp_this_thread, current_fp, best_in_run, T, step,
                   accepted, candidates, replicas, xi>>
    /\ UNCHANGED fpvars
    /\ merges' = [merges EXCEPT ![w] = @ + 1]
    /\ UNCHANGED <<perturbed, ledger0, found, temperatures, kept, setupvars, exchvars, callvars>>

\* `global_best_fp = best_fp_this_thread;`
CritWrite(w, from, to) ==
    /\ pc[w] = from
    /\ global_best_fp' = best_fp_this_thread[w]
    /\ replaced' = replaced + 1
    /\ pc' = [pc EXCEPT ![w] = to]
    /\ UNCHANGED <<strategy, main, elapsed, lock, events,
                   best_fp_this_thread, current_fp, best_in_run, T, step,
                   accepted, candidates, replicas, xi>>
    /\ UNCHANGED fpvars
    /\ UNCHANGED auxvars

\* `log_new_best(global_best_fp.cost);` and the end of the critical section
CritLog(w, from) ==
    /\ pc[w] = from
    /\ events' = Append(events, global_best_fp)
    /\ lock' = NoOwner
    /\ pc' = [pc EXCEPT ![w] = "end"]
    /\ UNCHANGED <<strategy, main, elapsed, global_best_fp, replaced,
                   best_fp_this_thread, current_fp, best_in_run, T, step,
                   accepted, candidates, replicas, xi>>
    /\ UNCHANGED fpvars
    /\ UNCHANGED auxvars

MsCritEnter(w) == CritEnter(w, "ms_crit_wait", "ms_crit")
MsCritCompare(w) == CritCompare(w, "ms_crit", "ms_write")
MsCritWrite(w) == CritWrite(w, "ms_write", "ms_log")
MsCritLog(w) == CritLog(w, "ms_log")

(* ---- parallel moves (fine) ---- *)

\* a thread that runs every iteration of the loop on its own vector
OwnIterations_WholeLoop(w) == Workers

\* the iterations of the work-shared `#pragma omp for` loop over k that
\* thread w executes (W iterations, W threads, static schedule)
OwnIterations(w) == {w}

\* the deadline test of the worker's outer loop and the start of an SA run
PmOuter(w) ==
    /\ pc[w] = "pm_outer"
    /\ IF ~elapsed
       THEN \E c \in Costs :
               /\ current_fp' = [current_fp EXCEPT ![w] = c]
               /\ best_in_run' = [best_in_run EXCEPT ![w] = c]
               /\ T' = [T EXCEPT ![w] = T_start]
               /\ accepted' = [accepted EXCEPT ![w] = FALSE]
               /\ pc' = [pc EXCEPT ![w] = "pm_inner"]
               /\ found' = [found EXCEPT ![w] = IF c < @ THEN c ELSE @]
               /\ kept' = [kept EXCEPT ![w] = {c}]
       ELSE /\ pc' = [pc EXCEPT ![w] = "pm_crit_wait"]
            /\ UNCHANGED <<current_fp, best_in_run, T, accepted, found, kept>>
    /\ UNCHANGED <<strategy, main, elapsed, global_best_fp, lock, events, replaced,
                   best_fp_this_thread, step, candidates, replicas, xi>>
    /\ UNCHANGED fpvars
    /\ UNCHANGED <<perturbed, ledger0, merges, temperatures, setupvars, exchvars, callvars>>

\* the test of the temperature loop, and the merge into the worker's best
PmInner(w) ==
    /\ pc[w] = "pm_inner"
    /\ IF T[w] > T_min /\ ~elapsed
       THEN /\ step' = [step EXCEPT ![w] = 0]
            /\ pc' = [pc EXCEPT ![w] = "pm_for"]
            /\ UNCHANGED <<best_fp_this_thread, current_fp, best_in_run, T, kept>>
       ELSE /\ best_fp_this_thread' =
                  [best_fp_this_thread EXCEPT
                      ![w] = IF best_in_run[w] < @ THEN best_in_run[w] ELSE @]
            /\ current_fp' = [current_fp EXCEPT ![w] = NoFp]
            /\ best_in_run' = [best_in_run EXCEPT ![w] = NoFp]
            /\ kept' = [kept EXCEPT ![w] = {}]
            /\ T' = [T EXCEPT ![w] = 0]
            /\ step' = [step EXCEPT ![w] = 0]
            /\ pc' = [pc EXCEPT ![w] = "pm_outer"]
    /\ UNCHANGED <<strategy, main, elapsed, global_best_fp, lock, events, replaced,
                   accepted, candidates, replicas, xi>>
    /\ UNCHANGED fpvars
    /\ UNCHANGED <<perturbed, ledger0, found, merges, temperatures, setupvars, exchvars, callvars>>

\* `candidates(num_threads, current_fp)` in the worker's own vector and the
\* worker's share of the work-shared loop: perturb, pack, evaluate (cost c)
PmFor(w) ==
    /\ pc[w] = "pm_for"
    /\ \E c \in Costs :
          /\ candidates' = [candidates EXCEPT
                               ![w] = [k \in Workers |->
                                         IF k \in OwnIterations(w) THEN c ELSE current_fp[w]]]
          /\ found' = [found EXCEPT ![w] = IF c < @ THEN c ELSE @]
    /\ perturbed' = [perturbed EXCEPT ![w] = OwnIterations(w)]
    /\ pc' = [pc EXCEPT ![w] = "pm_bar"]
    /\ UNCHANGED <<strategy, main, elapsed, global_best_fp, lock, events, replaced,
                   best_fp_this_thread, current_fp, best_in_run, T, step,
                   accepted, replicas, xi>>
    /\ UNCHANGED fpvars
    /\ UNCHANGED <<ledger0, merges, temperatures, kept, setupvars, exchvars, callvars>>

\* min_element over the candidates and the Metropolis test on the best one
PmSelect(w) ==
    /\ pc[w] = "pm_sel"
    /\ \E draw \in BOOLEAN :
          LET best_candidate == MinCost(candidates[w])
              acc == MetropolisAccepts(best_candidate - current_fp[w], draw)
          IN  /\ current_fp' = [current_fp EXCEPT ![w] = IF acc THEN best_candidate ELSE @]
              /\ best_in_run' =
                    [best_in_run EXCEPT ![w] = BestInRunAfter(@, acc, best_candidate)]
              /\ accepted' = [accepted EXCEPT ![w] = @ \/ acc]
              /\ kept' = [kept EXCEPT ![w] = IF acc THEN @ \cup {best_candidate} ELSE @]
    /\ candidates' = [candidates EXCEPT ![w] = [k \in Workers |-> NoFp]]
    /\ step' = [step EXCEPT ![w] = @ + 1]
    /\ IF step[w] + 1 < StepsPerTemp
       THEN /\ pc' = [pc EXCEPT ![w] = "pm_for"]
            /\ UNCHANGED T
       ELSE /\ T' = [T EXCEPT ![w] = Cool(@)]
            /\ pc' = [pc EXCEPT ![w] = "pm_inner"]
    /\ UNCHANGED <<strategy, main, elapsed, global_best_fp, lock, events, replaced,
                   best_fp_this_thread, replicas, xi>>
    /\ UNCHANGED fpvars
    /\ perturbed' = [perturbed EXCEPT ![w] = {}]
    /\ UNCHANGED <<ledger0, found, merges, temperatures, setupvars, exchvars, callvars>>

PmCritEnter(w) == CritEnter(w, "pm_crit_wait", "pm_crit")
PmCritCompare(w) == CritCompare(w, "pm_crit", "pm_write")
PmCritWrite(w) == CritWrite(w, "pm_write", "pm_log")
PmCritLog(w) == CritLog(w, "pm_log")

(* ---- parallel tempering (medium) ---- *)

\* lines 450-458: temperatures[i] = T_max * alpha^i with
\* alpha = (T_min / T_max)^(1 / (num_threads - 1)), kept as T_max and the
\* power of alpha
TemperatureLadder(num_threads) ==
    [i \in 0..(num_threads - 1) |-> [T_max |-> T_start, alpha_pow |-> i]]

\* the replica initialisation, `global_best_fp = *min_element(replicas)` and
\* `log_new_best`, before the parallel region
PtInit ==
    /\ main = "pt_init"
    /\ \E r \in [Workers -> Costs] :
          /\ replicas' = r
          /\ found' = r
          /\ global_best_fp' = MinCost(r)
          /\ events' = Append(events, MinCost(r))
    /\ replaced' = replaced + 1
    /\ main' = "running"
    /\ pc' = [w \in Workers |-> "pt_top"]
    /\ UNCHANGED <<strategy, elapsed, lock, best_fp_this_thread, current_fp,
                   best_in_run, T, step, accepted, candidates, xi>>
    /\ UNCHANGED fpvars
    /\ temperatures' = TemperatureLadder(NumWorkers)
    /\ UNCHANGED <<perturbed, ledger0, merges, kept, setupvars, exchvars, callvars>>

\* the deadline test at the top of a round
PtTop(w) ==
    /\ pc[w] = "pt_top"
    /\ IF ~elapsed
       THEN /\ pc' = [pc EXCEPT ![w] = "pt_sweep"]
            /\ step' = [step EXCEPT ![w] = 0]
            /\ accepted' = [accepted EXCEPT ![w] = FALSE]
       ELSE /\ pc' = [pc EXCEPT ![w] = "end"]
            /\ UNCHANGED <<step, accepted>>
    /\ UNCHANGED <<strategy, main, elapsed, global_best_fp, lock, events, replaced,
                   best_fp_this_thread, current_fp, best_in_run, T,
                   candidates, replicas, xi>>
    /\ UNCHANGED fpvars
    /\ UNCHANGED auxvars

\* one sweep proposal of worker w on replicas[w]; after steps_per_swap of
\* them the worker waits at Barrier 1
PtSweep(w) ==
    /\ pc[w] = "pt_sweep"
    /\ \E c \in Costs, draw \in BOOLEAN :
          LET acc == MetropolisAccepts(c - replicas[w], draw)
          IN  /\ replicas' = [replicas EXCEPT ![w] = IF acc THEN c ELSE @]
              /\ accepted' = [accepted EXCEPT ![w] = @ \/ acc]
              /\ found' = [found EXCEPT ![w] = IF c < @ THEN c ELSE @]
    /\ step' = [step EXCEPT ![w] = @ + 1]
    /\ pc' = [pc EXCEPT ![w] = IF step[w] + 1 < StepsPerTemp THEN "pt_sweep" ELSE "pt_b1"]
    /\ UNCHANGED <<strategy, main, elapsed, global_best_fp, lock, events, replaced,
                   best_fp_this_thread, current_fp, best_in_run, T, candidates, xi>>
    /\ UNCHANGED fpvars
    /\ UNCHANGED <<perturbed, ledger0, merges, temperatures, kept, setupvars, exchvars, callvars>>

\* the sign of x
Sign(x) == IF x < 0 THEN -1 ELSE IF x = 0 THEN 0 ELSE 1

\* the sign of `1.0 / T1 - 1.0 / T2` for two entries of the ladder of lines
\* 450-458: alpha < 1 exactly when T_min < T_max, and then the entry with the
\* larger power of alpha is the colder one
InverseTemperatureSign(T1, T2) ==
    IF T1.alpha_pow = T2.alpha_pow \/ T_min = T1.T_max
    THEN 0
    ELSE IF (T1.alpha_pow < T2.alpha_pow) = (T_min < T1.T_max) THEN -1 ELSE 1

\* the sign of the argument of exp in line 510
ExponentSign(cost1, cost2, T1, T2) ==
    Sign(cost1 - cost2) * InverseTemperatureSign(T1, T2)

ExchangeSwaps_ColderMinusHotter(cost1, cost2, T1, T2, draw) ==
    ExponentSign(cost1, cost2, T2, T1) >= 0 \/ draw

\* `prob > u` with prob = exp((cost1 - cost2) * (1/T1 - 1/T2)) and u drawn
\* from [0,1): prob >= 1 when the argument of exp is not negative; draw is
\* the outcome of the comparison otherwise
ExchangeSwaps(cost1, cost2, T1, T2, draw) ==
    ExponentSign(cost1, cost2, T1, T2) >= 0 \/ draw

SwapSlots_WithFirst(v, i) == [v EXCEPT ![0] = v[i + 1], ![i + 1] = v[0]]

\* `std::swap(v[i], v[i+1])`
SwapSlots(v, i) == [v EXCEPT ![i] = v[i + 1], ![i + 1] = v[i]]

ExchangeStep_SwapsTemperatures(st, i, draw) ==
    IF ExchangeSwaps(st.replicas[i], st.replicas[i + 1],
                                       st.temperatures[i], st.temperatures[i + 1], draw)
    THEN [replicas |-> SwapSlots(st.replicas, i),
          temperatures |-> SwapSlots(st.temperatures, i)]
    ELSE st

\* the body of the exchange loop for index i: what it leaves in the
\* vectors replicas and temperatures
ExchangeStep(st, i, draw) ==
    [replicas     |-> IF ExchangeSwaps(st.replicas[i], st.replicas[i + 1],
                                       st.temperatures[i], st.temperatures[i + 1], draw)
                      THEN SwapSlots(st.replicas, i)
                      ELSE st.replicas,
     temperatures |-> st.temperatures]

\* one iteration of the exchange loop in the master block
PtExchange(w) ==
    /\ pc[w] = "pt_exch"
    /\ \E draw \in BOOLEAN :
          LET st == ExchangeStep([replicas |-> replicas, temperatures |-> temperatures],
                                 xi, draw)
          IN  /\ replicas' = st.replicas
              /\ temperatures' = st.temperatures
    /\ IF xi + 1 < NumWorkers - 1
       THEN /\ xi' = xi + 1
            /\ UNCHANGED pc
       ELSE /\ xi' = 0
            /\ pc' = [pc EXCEPT ![w] = "pt_gb"]
    /\ UNCHANGED <<strategy, main, elapsed, global_best_fp, lock, events, replaced,
                   best_fp_this_thread, current_fp, best_in_run, T, step,
                   accepted, candidates>>
    /\ UNCHANGED fpvars
    /\ UNCHANGED <<perturbed, ledger0, found, merges, kept, setupvars, exchvars, callvars>>

\* one iteration of the loop `for (rep : replicas)` in the master block: the
\* compare and `global_best_fp = rep`
PtGlobalBest(w) ==
    /\ pc[w] = "pt_gb"
    /\ IF LedgerImproves(replicas[xi])
       THEN /\ global_best_fp' = replicas[xi]
            /\ replaced' = replaced + 1
            /\ pc' = [pc EXCEPT ![w] = "pt_log"]
            /\ UNCHANGED xi
       ELSE /\ UNCHANGED <<global_best_fp, replaced>>
            /\ IF xi + 1 < NumWorkers
               THEN /\ xi' = xi + 1
                    /\ UNCHANGED pc
               ELSE /\ xi' = 0
                    /\ pc' = [pc EXCEPT ![w] = "pt_b2"]
    /\ UNCHANGED <<strategy, main, elapsed, lock, events,
                   best_fp_this_thread, current_fp, best_in_run, T, step,
                   accepted, candidates, replicas>>
    /\ UNCHANGED fpvars
    /\ UNCHANGED auxvars

\* `log_new_best(global_best_fp.cost)` in the master block
PtLog(w) ==
    /\ pc[w] = "pt_log"
    /\ events' = Append(events, global_best_fp)
    /\ IF xi + 1 < NumWorkers
       THEN /\ xi' = xi + 1
            /\ pc' = [pc EXCEPT ![w] = "pt_gb"]
       ELSE /\ xi' = 0
            /\ pc' = [pc EXCEPT ![w] = "pt_b2"]
    /\ UNCHANGED <<strategy, main, elapsed, global_best_fp, lock, replaced,
                   best_fp_this_thread, current_fp, best_in_run, T, step,
                   accepted, candidates, replicas>>
    /\ UNCHANGED fpvars
    /\ UNCHANGED auxvars

(* ---- barriers of the team ---- *)

\* where a thread waits for the team: Barrier 1 and Barrier 2 of tempering,
\* the implicit barrier of the work-shared loop, the implicit barrier at the
\* end of the parallel region
WaitPcs == {"pt_b1", "pt_b2", "pm_bar", "end"}

\* a block after Barrier 1 without `#pragma omp master`
AfterBarrier_NoMaster(w) ==
    CASE pc[w] = "pt_b1" -> "pt_exch"
      [] pc[w] = "pt_b2" -> "pt_top"
      [] pc[w] = "pm_bar" -> "pm_sel"
      [] pc[w] = "end" -> "done"
      [] OTHER -> pc[w]

\* where thread w continues when the barrier it waits at is released
AfterBarrier(w) ==
    CASE pc[w] = "pt_b1" -> (IF w = Master THEN "pt_exch" ELSE "pt_b2")
      [] pc[w] = "pt_b2" -> "pt_top"
      [] pc[w] = "pm_bar" -> "pm_sel"
      [] pc[w] = "end" -> "done"
      [] OTHER -> pc[w]

\* every thread of the team waits at a barrier
AllArrived == \A w \in Workers : pc[w] \in WaitPcs

SameBarrier == \A v, w \in Workers : pc[v] = pc[w]

\* all threads have reached the same barrier: the team is released
Barrier ==
    /\ AllArrived
    /\ SameBarrier
    /\ pc' = [w \in Workers |-> AfterBarrier(w)]
    /\ UNCHANGED <<strategy, main, elapsed, global_best_fp, lock, events, replaced,
                   best_fp_this_thread, current_fp, best_in_run, T, step,
                   accepted, candidates, replicas, xi>>
    /\ UNCHANGED fpvars
    /\ UNCHANGED auxvars

\* the threads wait at different barriers of the same team (a thread has left
\* its loops while another waits inside them). The program is then
\* non-conforming; the runtime counts arrivals of the team whatever the
\* barrier, so the waiting threads may be released, or wait for ever when
\* this step is not taken
BarrierMismatched ==
    /\ AllArrived
    /\ ~SameBarrier
    /\ pc' = [w \in Workers |-> AfterBarrier(w)]
    /\ UNCHANGED <<strategy, main, elapsed, global_best_fp, lock, events, replaced,
                   best_fp_this_thread, current_fp, best_in_run, T, step,
                   accepted, candidates, replicas, xi>>
    /\ UNCHANGED fpvars
    /\ UNCHANGED auxvars

-----------------------------------------------------------------------------
(* Spec: a ParallelSA object over its life *)

Strategies == {"MultiStart_Coarse", "ParallelTempering_Medium", "ParallelMoves_Fine"}

Init ==
    /\ blocks = Catalogue(MaxBlocks)
    /\ tree = [i \in {} |-> Node(0)]
    /\ root_id = NIL
    /\ chip_width = 0 /\ chip_height = 0 /\ chip_area = 0
    /\ ub = FALSE
    /\ lastCall = [f |-> "read_blocks", op |-> NIL]
    /\ SAConstructed
    /\ Aside

Next ==
    \/ Tick
    \/ \E s \in Strategies : RunStart(s)
    \/ RunReturn
    \/ PtInit
    \/ Barrier
    \/ BarrierMismatched
    \/ \E w \in Workers :
          \/ MsOuter(w) \/ MsInner(w) \/ MsStep(w)
          \/ MsCritEnter(w) \/ MsCritCompare(w) \/ MsCritWrite(w) \/ MsCritLog(w)
          \/ PmOuter(w) \/ PmInner(w) \/ PmFor(w) \/ PmSelect(w)
          \/ PmCritEnter(w) \/ PmCritCompare(w) \/ PmCritWrite(w) \/ PmCritLog(w)
          \/ PtTop(w) \/ PtSweep(w) \/ PtExchange(w) \/ PtGlobalBest(w) \/ PtLog(w)

Spec == Init /\ [][Next]_vars

-----------------------------------------------------------------------------
(* SetupSpec: what an invocation computes before its loops *)

\* denominators of steps_per_temp_factor: binary fractions, so that the
\* double product factor * n is exact
FactorDens == {1, 2, 4}

\* `int steps = sa_params.steps_per_temp_factor * base_fp.blocks.size()`: the
\* conversion of the (positive) double product to int truncates
TruncToInt(num, den, n) == (num * n) \div den

\* the batch size of strategy s: lines 393 (multistart, no lower limit),
\* 474-475 (tempering) and 559-561 (parallel moves)
steps_per_temp(s, p, n) ==
    LET t == TruncToInt(p.num, p.den, n)
    IN  IF s = "MultiStart_Coarse" THEN t
        ELSE IF t < 1 THEN 1 ELSE t

\* the seed `<timestamp>.time_since_epoch().count() + tid`
SeedOf(stamp, tid) == stamp + tid

\* the timestamp a worker's seed is built from: its own reading of the
\* clock (lines 378, 545), or start_time in tempering (line 482); ticks are
\* counted from start_time
SeedStamp(s) == IF s = "ParallelTempering_Medium" THEN 0 ELSE now

\* a constructed ParallelSA with its hyperparameters and catalogue
SetupInit ==
    /\ \E n \in 1..MaxBlocks : blocks = Catalogue(n)
    /\ tree = [i \in {} |-> Node(0)]
    /\ root_id = NIL
    /\ chip_width = 0 /\ chip_height = 0 /\ chip_area = 0
    /\ ub = FALSE
    /\ lastCall = [f |-> "read_blocks", op |-> NIL]
    /\ SAConstructed
    /\ now = 0
    /\ seed = [w \in Workers |-> NIL]
    /\ master_seed = NIL
    /\ \E num \in 1..MaxFactorNum, den \in FactorDens : sa_params = [num |-> num, den |-> den]
    /\ steps = NIL
    /\ origin = << >>
    /\ attempts = << >>
    /\ arg = NIL
    /\ ret = NIL

\* run(s): start_time is read from the clock
SetupRun(s) ==
    /\ strategy = "none"
    /\ strategy' = s
    /\ now' = 0
    /\ UNCHANGED <<main, elapsed, global_best_fp, lock, events, replaced,
                   pc, best_fp_this_thread, current_fp, best_in_run, T, step,
                   accepted, candidates, replicas, xi>>
    /\ UNCHANGED <<seed, master_seed, sa_params, steps>>
    /\ UNCHANGED <<fpvars, runvars, exchvars, callvars>>

\* the clock advances by one tick
ClockTick ==
    /\ strategy # "none"
    /\ now < MaxStamp
    /\ now' = now + 1
    /\ UNCHANGED <<seed, master_seed, sa_params, steps>>
    /\ UNCHANGED <<fpvars, savars, runvars, exchvars, callvars>>

\* `std::mt19937 master_rng(start_time.time_since_epoch().count())`
ConstructMasterRng ==
    /\ strategy = "ParallelTempering_Medium"
    /\ master_seed = NIL
    /\ master_seed' = SeedOf(SeedStamp(strategy), 0)
    /\ UNCHANGED <<now, seed, sa_params, steps>>
    /\ UNCHANGED <<fpvars, savars, runvars, exchvars, callvars>>

\* worker w builds its RNG at the start of the parallel region
ConstructRng(w) ==
    /\ strategy # "none"
    /\ strategy = "ParallelTempering_Medium" => master_seed # NIL
    /\ seed[w] = NIL
    /\ seed' = [seed EXCEPT ![w] = SeedOf(SeedStamp(strategy), w)]
    /\ UNCHANGED <<now, master_seed, sa_params, steps>>
    /\ UNCHANGED <<fpvars, savars, runvars, exchvars, callvars>>

\* the batch size is computed from the factor and the catalogue size
ComputeSteps ==
    /\ strategy # "none"
    /\ steps = NIL
    /\ steps' = steps_per_temp(strategy, sa_params, NumBlocks)
    /\ UNCHANGED <<now, seed, master_seed, sa_params>>
    /\ UNCHANGED <<fpvars, savars, runvars, exchvars, callvars>>

SetupNext ==
    \/ \E s \in Strategies : SetupRun(s)
    \/ ClockTick
    \/ ConstructMasterRng
    \/ \E w \in Workers : ConstructRng(w)
    \/ ComputeSteps

SetupSpec == SetupInit /\ [][SetupNext]_vars

-----------------------------------------------------------------------------
(* ExchangeSpec: the rounds of tempering with a team of ExchangeSlots threads,
   each sweep phase taken as one step *)

ExchangeTeam == 0..(ExchangeSlots - 1)

\* the loop `for (rep : replicas)` of the master block from slot k on: acc is
\* the ledger, the event log and the count of replacements
RECURSIVE LedgerScan(_, _, _)
LedgerScan(reps, k, acc) ==
    IF k = ExchangeSlots THEN acc
    ELSE LedgerScan(reps, k + 1,
                    IF reps[k] < acc.best
                    THEN [best     |-> reps[k],
                          events   |-> Append(acc.events, reps[k]),
                          replaced |-> acc.replaced + 1]
                    ELSE acc)

\* the team after the initialisation of tempering (lines 444-482), every
\* thread at the loop test
ExchangeInit ==
    /\ blocks = Catalogue(MaxBlocks)
    /\ tree = [i \in {} |-> Node(0)]
    /\ root_id = NIL
    /\ chip_width = 0 /\ chip_height = 0 /\ chip_area = 0
    /\ ub = FALSE
    /\ lastCall = [f |-> "read_blocks", op |-> NIL]
    /\ strategy = "ParallelTempering_Medium"
    /\ main = "running"
    /\ elapsed = FALSE
    /\ lock = NoOwner
    /\ \E r \in [ExchangeTeam -> Costs] :
          /\ replicas = r
          /\ found = r
          /\ global_best_fp = MinCost(r)
          /\ events = <<MinCost(r)>>
    /\ replaced = 1
    /\ pc = [w \in ExchangeTeam |-> "pt_top"]
    /\ best_fp_this_thread = [w \in ExchangeTeam |-> NoFp]
    /\ current_fp = [w \in ExchangeTeam |-> NoFp]
    /\ best_in_run = [w \in ExchangeTeam |-> NoFp]
    /\ T = [w \in ExchangeTeam |-> 0]
    /\ step = [w \in ExchangeTeam |-> 0]
    /\ accepted = [w \in ExchangeTeam |-> FALSE]
    /\ candidates = [w \in ExchangeTeam |-> << >>]
    /\ xi = 0
    /\ perturbed = [w \in ExchangeTeam |-> {}]
    /\ ledger0 = Huge
    /\ merges = [w \in ExchangeTeam |-> 0]
    /\ temperatures = TemperatureLadder(ExchangeSlots)
    /\ kept = [w \in ExchangeTeam |-> {}]
    /\ now = 0
    /\ seed = [w \in ExchangeTeam |-> NIL]
    /\ master_seed = NIL
    /\ sa_params = [num |-> 1, den |-> 1]
    /\ steps = NIL
    /\ origin = [i \in ExchangeTeam |-> i]
    /\ attempts = << >>
    /\ arg = NIL
    /\ ret = NIL

\* the deadline test succeeds for the team, every thread w sweeps its
\* replicas[w] (lines 484-497) and the team passes the barrier of line 500
ExchangeSweeps ==
    /\ \A w \in ExchangeTeam : pc[w] = "pt_top"
    /\ ~elapsed
    /\ \E r \in [ExchangeTeam -> Costs] :
          /\ replicas' = r
          /\ found' = [w \in ExchangeTeam |-> IF r[w] < found[w] THEN r[w] ELSE found[w]]
    /\ pc' = [w \in ExchangeTeam |-> IF w = Master THEN "pt_exch" ELSE "pt_b2"]
    /\ xi' = 0
    /\ origin' = [i \in ExchangeTeam |-> i]
    /\ attempts' = << >>
    /\ UNCHANGED <<strategy, main, elapsed, global_best_fp, lock, events, replaced,
                   best_fp_this_thread, current_fp, best_in_run, T, step,
                   accepted, candidates>>
    /\ UNCHANGED <<perturbed, ledger0, merges, temperatures, kept>>
    /\ UNCHANGED <<fpvars, setupvars, callvars>>

\* one iteration of the exchange loop (lines 506-515); origin follows the
\* replica states, attempts records the iteration
ExchangeIteration ==
    /\ pc[Master] = "pt_exch"
    /\ \E draw \in BOOLEAN :
          LET st == ExchangeStep([replicas |-> replicas, temperatures |-> temperatures],
                                 xi, draw)
              swapped == ExchangeSwaps(replicas[xi], replicas[xi + 1],
                                       temperatures[xi], temperatures[xi + 1], draw)
          IN  /\ replicas' = st.replicas
              /\ temperatures' = st.temperatures
              /\ origin' = IF swapped THEN SwapSlots(origin, xi) ELSE origin
              /\ attempts' = Append(attempts,
                                    [i |-> xi, cost1 |-> replicas[xi],
                                     cost2 |-> replicas[xi + 1], swapped |-> swapped])
    /\ IF xi + 1 < ExchangeSlots - 1
       THEN /\ xi' = xi + 1
            /\ UNCHANGED pc
       ELSE /\ xi' = 0
            /\ pc' = [pc EXCEPT ![Master] = "pt_gb"]
    /\ UNCHANGED <<strategy, main, elapsed, global_best_fp, lock, events, replaced,
                   best_fp_this_thread, current_fp, best_in_run, T, step,
                   accepted, candidates>>
    /\ UNCHANGED <<perturbed, ledger0, found, merges, kept>>
    /\ UNCHANGED <<fpvars, setupvars, callvars>>

\* the ledger loop of the master block (lines 518-524) and the barrier of
\* line 528
ExchangeLedger ==
    /\ pc[Master] = "pt_gb"
    /\ LET acc == LedgerScan(replicas, 0,
                             [best |-> global_best_fp, events |-> events,
                              replaced |-> replaced])
       IN  /\ global_best_fp' = acc.best
           /\ events' = acc.events
           /\ replaced' = acc.replaced
    /\ pc' = [w \in ExchangeTeam |-> "pt_top"]
    /\ UNCHANGED <<strategy, main, elapsed, lock,
                   best_fp_this_thread, current_fp, best_in_run, T, step,
                   accepted, candidates, replicas, xi>>
    /\ UNCHANGED <<fpvars, auxvars>>

ExchangeNext ==
    \/ ExchangeSweeps
    \/ ExchangeIteration
    \/ ExchangeLedger

ExchangeSpec == ExchangeInit /\ [][ExchangeNext]_vars

-----------------------------------------------------------------------------
(* RoundTripSpec: detach(u) followed by attach(u, p, s) on any valid tree *)

\* the valid trees over catalogues of n blocks: every shape on the node array,
\* every assignment of blocks to nodes, every choice of variants
ValidTrees(n) ==
    LET N == 0..(n - 1)
        Parents == {par \in [N -> N \cup {NIL}] :
                      /\ Cardinality({i \in N : par[i] = NIL}) = 1
                      /\ \A i \in N : \E k \in 0..(n - 1) :
                            \E path \in [0..k -> N] :
                               /\ path[0] = i
                               /\ par[path[k]] = NIL
                               /\ \A q \in 0..(k - 1) : path[q + 1] = par[path[q]]}
        Sides == {sd \in [par : Parents, isleft : [N -> BOOLEAN]] :
                    \A i, j \in N :
                       (i # j /\ sd.par[i] # NIL /\ sd.par[i] = sd.par[j])
                           => sd.isleft[i] # sd.isleft[j]}
        Child(sd, i, side) ==
            LET C == {c \in N : sd.par[c] = i /\ sd.isleft[c] = side}
            IN  IF C = {} THEN NIL ELSE CHOOSE c \in C : TRUE
        Labels == {lb \in [p : Permutations0(n), d : [N -> 0..1]] :
                     \A i \in N : lb.d[i] < Len(BlockTable[lb.p[i] + 1])}
    IN  {[tree |-> [i \in N |->
                      [Node(lb.p[i]) EXCEPT
                          !.parent = sd.par[i],
                          !.left = Child(sd, i, TRUE),
                          !.right = Child(sd, i, FALSE),
                          !.current_dim_idx = lb.d[i],
                          !.width = BlockTable[lb.p[i] + 1][lb.d[i] + 1].width,
                          !.height = BlockTable[lb.p[i] + 1][lb.d[i] + 1].height]],
          root_id |-> CHOOSE i \in N : sd.par[i] = NIL] :
            sd \in Sides, lb \in Labels}

\* a Floorplan holding a valid tree with at least one non-root node
RoundTripInit ==
    /\ \E n \in 2..MaxBlocks :
          /\ blocks = Catalogue(n)
          /\ \E x \in ValidTrees(n) :
                /\ tree = x.tree
                /\ root_id = x.root_id
    /\ chip_width = 0 /\ chip_height = 0 /\ chip_area = 0
    /\ ub = FALSE
    /\ lastCall = [f |-> "perturb", op |-> NIL]
    /\ SAConstructed
    /\ Aside

\* detach(u) for a non-root node u; arg keeps u, its parent and side and the
\* floorplan before the call, ret the promoted child
Detach(u) ==
    /\ lastCall.f = "perturb"
    /\ u \in NodeIds
    /\ tree[u].parent # NIL
    /\ LET r == detach(tree, root_id, u)
       IN  /\ tree' = r.tree
           /\ root_id' = r.root_id
           /\ ret' = r.promoted
    /\ arg' = [u |-> u, p |-> tree[u].parent,
               is_left |-> (tree[tree[u].parent].left = u),
               tree |-> tree, root_id |-> root_id]
    /\ lastCall' = [f |-> "detach", op |-> NIL]
    /\ UNCHANGED <<blocks, chip_width, chip_height, chip_area, ub>>
    /\ UNCHANGED <<savars, runvars, setupvars, exchvars>>

\* attach(u, p, s) with the parent and side u had before detach
AttachBack ==
    /\ lastCall.f = "detach"
    /\ tree' = attach(tree, arg.u, arg.p, arg.is_left)
    /\ lastCall' = [f |-> "attach", op |-> NIL]
    /\ UNCHANGED <<blocks, root_id, chip_width, chip_height, chip_area, ub>>
    /\ UNCHANGED <<savars, auxvars>>

RoundTripNext ==
    \/ \E u \in NodeIds : Detach(u)
    \/ AttachBack

RoundTripSpec == RoundTripInit /\ [][RoundTripNext]_vars

-----------------------------------------------------------------------------
(* CompareSpec: compareBlockNames on pairs of names *)

\* the characters names are made of, with their codes
Letters == {"A", "M"}
Digits == {"0", "1", "2"}
Chars == Letters \cup Digits
CharCode(c) ==
    CASE c = "0" -> 48 [] c = "1" -> 49 [] c = "2" -> 50 [] c = "A" -> 65 [] c = "M" -> 77
DigitValue(c) == CharCode(c) - 48

\* isdigit
isdigit(c) == c \in Digits

\* the strings of at most MaxNameLen characters
Names == UNION {[1..k -> Chars] : k \in 0..MaxNameLen}

RECURSIVE FirstDigit(_, _)
\* `while (i < a.length() && !isdigit(a[i])) i++` from position i (1-based)
FirstDigit(a, i) ==
    IF i <= Len(a) /\ ~isdigit(a[i]) THEN FirstDigit(a, i + 1) ELSE i

RECURSIVE StringLess(_, _)
\* std::string operator< : lexicographic on the character codes
StringLess(a, b) ==
    IF b = << >> THEN FALSE
    ELSE IF a = << >> THEN TRUE
    ELSE IF CharCode(Head(a)) # CharCode(Head(b)) THEN CharCode(Head(a)) < CharCode(Head(b))
    ELSE StringLess(Tail(a), Tail(b))

RECURSIVE ParseDigits(_, _)
\* the value of the longest run of digits at the start of str, after acc
ParseDigits(str, acc) ==
    IF str # << >> /\ isdigit(Head(str))
    THEN ParseDigits(Tail(str), 10 * acc + DigitValue(Head(str)))
    ELSE acc

\* std::stoul: the number at the start of str (what follows it is
\* ignored); no digit there throws std::invalid_argument
stoul(str) ==
    IF str = << >> \/ ~isdigit(Head(str))
    THEN [threw |-> "invalid_argument"]
    ELSE [threw |-> "", value |-> ParseDigits(str, 0)]

\* a comparator that orders the names as plain strings
compareBlockNames_Lexicographic(a, b) == [threw |-> "", value |-> StringLess(a, b)]

\* compareBlockNames(a, b): what it returns, or the exception that leaves it
compareBlockNames(a, b) ==
    LET i == FirstDigit(a, 1)
        j == FirstDigit(b, 1)
        prefix_a == SubSeq(a, 1, i - 1)
        prefix_b == SubSeq(b, 1, j - 1)
        na == stoul(SubSeq(a, i, Len(a)))
        nb == stoul(SubSeq(b, j, Len(b)))
    IN  IF prefix_a # prefix_b THEN [threw |-> "", value |-> StringLess(prefix_a, prefix_b)]
        ELSE IF na.threw # "" THEN [threw |-> na.threw]
        ELSE IF nb.threw # "" THEN [threw |-> nb.threw]
        ELSE [threw |-> "", value |-> na.value < nb.value]

\* the call has not been made
NotCalled == [threw |-> "not called"]

\* two names about to be compared
CompareInit ==
    /\ blocks = Catalogue(MaxBlocks)
    /\ tree = [i \in {} |-> Node(0)]
    /\ root_id = NIL
    /\ chip_width = 0 /\ chip_height = 0 /\ chip_area = 0
    /\ ub = FALSE
    /\ lastCall = [f |-> "read_blocks", op |-> NIL]
    /\ SAConstructed
    /\ now = 0
    /\ seed = [w \in Workers |-> NIL]
    /\ master_seed = NIL
    /\ sa_params = [num |-> 1, den |-> 1]
    /\ steps = NIL
    /\ origin = << >>
    /\ attempts = << >>
    /\ arg \in Names \X Names
    /\ ret = NotCalled

\* the call compareBlockNames(arg[1], arg[2])
Compare ==
    /\ ret = NotCalled
    /\ ret' = compareBlockNames(arg[1], arg[2])
    /\ UNCHANGED arg
    /\ UNCHANGED <<fpvars, savars, runvars, setupvars, exchvars>>

CompareNext == Compare

CompareSpec == CompareInit /\ [][CompareNext]_vars

-----------------------------------------------------------------------------
(* SortSpec: the name-ordered lists of calculate_inl and write_output *)

\* names with the prefix M and a number
NumberedNames ==
    {<<"M">> \o d : d \in UNION {[1..k -> Digits] : k \in 1..(MaxNameLen - 1)}}

\* `operator<` of BlockDist and OutputNode on two entries
EntryLess(x, y) == compareBlockNames(x.name, y.name).value

RECURSIVE LinearInsert(_, _)
\* the insertion of val into the sorted sequence srt: val moves towards the
\* front past every entry it is less than
LinearInsert(srt, val) ==
    IF srt # << >> /\ EntryLess(val, srt[Len(srt)])
    THEN Append(LinearInsert(SubSeq(srt, 1, Len(srt) - 1), val), srt[Len(srt)])
    ELSE Append(srt, val)

RECURSIVE SortEntries(_)
\* std::sort(v.begin(), v.end()) on fewer than 16 entries: insertion sort
SortEntries(v) ==
    IF v = << >> THEN << >>
    ELSE LinearInsert(SortEntries(SubSeq(v, 1, Len(v) - 1)), v[Len(v)])

RECURSIVE RunningSums(_, _)
\* `s_actual.push_back(current_sum += bd.dist_sq)` over the sorted entries
RunningSums(srt, current_sum) ==
    IF srt = << >> THEN << >>
    ELSE <<current_sum + Head(srt).dist_sq>>
             \o RunningSums(Tail(srt), current_sum + Head(srt).dist_sq)

\* the entries in node-array order: node i holds block order[i]
EntriesOf(a) ==
    [i \in 1..Len(a.order) |->
        [name |-> a.names[a.order[i]], dist_sq |-> a.dist_sq[a.order[i]]]]

\* lines 311-322 of calculate_inl: the sorted names and the sums S_k
calculate_inl_sums(a) ==
    LET srt == SortEntries(EntriesOf(a))
    IN  [f |-> "calculate_inl",
         names |-> [k \in 1..Len(srt) |-> srt[k].name],
         s_actual |-> RunningSums(srt, 0)]

\* lines 372-383 of write_output: the names of the block lines, in order
write_output_lines(a) ==
    LET srt == SortEntries(EntriesOf(a))
    IN  [f |-> "write_output", names |-> [k \in 1..Len(srt) |-> srt[k].name]]

\* the sequences without repetition of n elements of S
Arrangements(S, n) ==
    {q \in [1..n -> S] : \A i, j \in 1..n : i # j => q[i] # q[j]}

\* a catalogue of numbered names, a packed layout given by the squared
\* distance of every block, and an order of the blocks in the node array
SortInit ==
    /\ blocks = Catalogue(MaxBlocks)
    /\ tree = [i \in {} |-> Node(0)]
    /\ root_id = NIL
    /\ chip_width = 0 /\ chip_height = 0 /\ chip_area = 0
    /\ ub = FALSE
    /\ lastCall = [f |-> "pack", op |-> NIL]
    /\ SAConstructed
    /\ now = 0
    /\ seed = [w \in Workers |-> NIL]
    /\ master_seed = NIL
    /\ sa_params = [num |-> 1, den |-> 1]
    /\ steps = NIL
    /\ origin = << >>
    /\ attempts = << >>
    /\ \E n \in 2..MaxBlocks :
          arg \in [names : Arrangements(NumberedNames, n),
                   dist_sq : [1..n -> 1..2],
                   order : Arrangements(1..n, n)]
    /\ ret = [f |-> "none"]

\* calculate_inl up to the cumulative sums
CalculateInl ==
    /\ ret.f = "none"
    /\ ret' = calculate_inl_sums(arg)
    /\ UNCHANGED arg
    /\ UNCHANGED <<fpvars, savars, runvars, setupvars, exchvars>>

\* write_output
WriteOutput ==
    /\ ret.f \in {"none", "calculate_inl"}
    /\ ret' = write_output_lines(arg)
    /\ UNCHANGED arg
    /\ UNCHANGED <<fpvars, savars, runvars, setupvars, exchvars>>

SortNext == CalculateInl \/ WriteOutput

SortSpec == SortInit /\ [][SortNext]_vars

-----------------------------------------------------------------------------
(* ParseSpec: read_blocks on an input file *)

\* std::string::npos
NPOS == SIZE_MAX

\* what can follow the name on a line: parentheses and other characters
RestChars == {"(", ")", "1"}
Rests == UNION {[1..k -> RestChars] : k \in 0..MaxRestLen}

\* a line: its first token and the rest of the line; a line without token
\* has no rest
Lines == {l \in [name : {<< >>, <<"A">>}, rest : Rests] :
            l.name = << >> => l.rest = << >>}

\* the input files: one that cannot be opened, or up to MaxLines lines
Files == {[opened |-> FALSE, lines |-> << >>]}
            \cup {[opened |-> TRUE, lines |-> l] :
                     l \in UNION {[1..k -> Lines] : k \in 0..MaxLines}}

\* rest.find(c, pos): the first 0-based position >= pos holding c, or npos
Find(rest, c, pos) ==
    LET S == {k \in 0..(Len(rest) - 1) : k >= pos /\ rest[k + 1] = c}
    IN  IF S = {} THEN NPOS ELSE SetMin(S)

\* `end_pos + 1` in size_t
SizeTSucc(k) == IF k = SIZE_MAX THEN 0 ELSE k + 1

\* a file about to be read
ParseInit ==
    /\ blocks = Catalogue(0)
    /\ tree = [i \in {} |-> Node(0)]
    /\ root_id = NIL
    /\ chip_width = 0 /\ chip_height = 0 /\ chip_area = 0
    /\ ub = FALSE
    /\ lastCall = [f |-> "Floorplan", op |-> NIL]
    /\ SAConstructed
    /\ now = 0
    /\ seed = [w \in Workers |-> NIL]
    /\ master_seed = NIL
    /\ sa_params = [num |-> 1, den |-> 1]
    /\ steps = NIL
    /\ origin = << >>
    /\ attempts = << >>
    /\ arg \in Files
    /\ ret = [pc |-> "open", line |-> 0, start_pos |-> 0, dimensions |-> 0,
              blocks |-> << >>]

\* lines 38-42: the file is opened, or the diagnostic and exit(1)
OpenFile ==
    /\ ret.pc = "open"
    /\ ret' = [ret EXCEPT !.pc = IF arg.opened THEN "getline" ELSE "exit_1"]
    /\ UNCHANGED arg
    /\ UNCHANGED <<fpvars, savars, runvars, setupvars, exchvars>>

\* lines 44-51: `while (getline(file, line))`, the name and the rest of the
\* line; at the end of the file read_blocks returns
GetLine ==
    /\ ret.pc = "getline"
    /\ ret' = IF ret.line < Len(arg.lines)
              THEN [ret EXCEPT !.pc = "find", !.line = @ + 1,
                               !.start_pos = 0, !.dimensions = 0]
              ELSE [ret EXCEPT !.pc = "returned"]
    /\ UNCHANGED arg
    /\ UNCHANGED <<fpvars, savars, runvars, setupvars, exchvars>>

\* lines 53-61: the test of the tuple loop and one iteration of its body
FindTuple ==
    /\ ret.pc = "find"
    /\ ret.dimensions < MaxVariants
    /\ LET rest == arg.lines[ret.line].rest
           start_pos == Find(rest, "(", ret.start_pos)
           end_pos == Find(rest, ")", start_pos)
       IN  ret' = IF start_pos # NPOS
                  THEN [ret EXCEPT !.start_pos = SizeTSucc(end_pos),
                                   !.dimensions = @ + 1]
                  ELSE [ret EXCEPT !.pc = "push"]
    /\ UNCHANGED arg
    /\ UNCHANGED <<fpvars, savars, runvars, setupvars, exchvars>>

\* lines 62-63: `blocks.push_back(b)` and the name map
PushBlock ==
    /\ ret.pc = "push"
    /\ ret' = [ret EXCEPT !.pc = "getline",
                          !.blocks = Append(@, [name |-> arg.lines[ret.line].name,
                                                variants |-> ret.dimensions])]
    /\ UNCHANGED arg
    /\ UNCHANGED <<fpvars, savars, runvars, setupvars, exchvars>>

ParseNext == OpenFile \/ GetLine \/ FindTuple \/ PushBlock

ParseSpec == ParseInit /\ [][ParseNext]_vars

-----------------------------------------------------------------------------
(* CostSpec: the area and aspect-ratio part of calculate_cost; the doubles *)
(* are exact fractions of integers                                         *)

Frac(n, d) == [num |-> n, den |-> d]
FracLess(a, b) == a.num * b.den < b.num * a.den
FracAdd(a, b) == Frac(a.num * b.den + b.num * a.den, a.den * b.den)
FracSub(a, b) == Frac(a.num * b.den - b.num * a.den, a.den * b.den)
FracMul(a, b) == Frac(a.num * b.num, a.den * b.den)

\* std::max(a, b)
FracMax(a, b) == IF FracLess(a, b) THEN b ELSE a

\* an aspect ratio taken as width over height only
AspectRatio_WidthOverHeight(w, h) == Frac(w, h)

\* line 169: `(chip_height > 1e-9) ? max(W / H, H / W) : 1e9`
AspectRatio(w, h) ==
    IF h > 0 THEN FracMax(Frac(w, h), Frac(h, w)) ELSE Frac(1000000000, 1)

\* lines 171-175: f_AR
AspectPenalty(AR) ==
    IF FracLess(AR, Frac(1, 2)) THEN FracMul(Frac(2, 1), FracSub(Frac(1, 2), AR))
    ELSE IF FracLess(Frac(2, 1), AR) THEN FracSub(AR, Frac(2, 1))
    ELSE Frac(0, 1)

\* lines 165-177 of calculate_cost: the sentinel for a degenerate layout, or
\* AR, f_AR and area_ar_cost (integer chip sides: `< 1e-9` is `< 1`)
calculate_cost_area(w, h, a) ==
    IF a < 1 THEN [f |-> "calculate_cost", sentinel |-> TRUE]
    ELSE LET AR == AspectRatio(w, h)
             f_AR == AspectPenalty(AR)
         IN  [f |-> "calculate_cost", sentinel |-> FALSE, AR |-> AR, f_AR |-> f_AR,
              area_ar_cost |-> FracMul(Frac(a, 1), FracAdd(Frac(1, 1), f_AR))]

\* a packed floorplan of one block of any size up to MaxChipSide, or the
\* floorplan without tree
CostInit ==
    /\ \E w \in 0..MaxChipSide, h \in 0..MaxChipSide :
          /\ (w = 0) = (h = 0)
          /\ blocks = [b \in {k \in {0} : w > 0} |-> <<[width |-> w, height |-> h]>>]
          /\ tree = [i \in {k \in {0} : w > 0} |->
                       [Node(0) EXCEPT !.width = w, !.height = h]]
          /\ root_id = IF w > 0 THEN 0 ELSE NIL
          /\ chip_width = w /\ chip_height = h /\ chip_area = w * h
    /\ ub = FALSE
    /\ lastCall = [f |-> "pack", op |-> NIL]
    /\ SAConstructed
    /\ now = 0
    /\ seed = [w \in Workers |-> NIL]
    /\ master_seed = NIL
    /\ sa_params = [num |-> 1, den |-> 1]
    /\ steps = NIL
    /\ origin = << >>
    /\ attempts = << >>
    /\ arg = NIL
    /\ ret = [f |-> "none"]

\* calculate_cost up to area_ar_cost
CalculateCost ==
    /\ lastCall.f = "pack"
    /\ ret' = calculate_cost_area(chip_width, chip_height, chip_area)
    /\ lastCall' = [f |-> "calculate_cost", op |-> NIL]
    /\ UNCHANGED <<blocks, tree, root_id, chip_width, chip_height, chip_area, ub>>
    /\ UNCHANGED arg
    /\ UNCHANGED <<savars, runvars, setupvars, exchvars>>

CostNext == CalculateCost

CostSpec == CostInit /\ [][CostNext]_vars

-----------------------------------------------------------------------------
(* EvalSpec: one thread of a strategy, statement by statement: which      *)
(* floorplans were packed and evaluated when their cost field is read      *)

\* a Floorplan object: whether its coordinates, chip totals and cost are
\* those of its tree ("default": constructed, no tree; "mutated": the tree
\* changed after the last pack; "packed"; "evaluated"), and its cost field
DefaultFp == [status |-> "default", cost |-> Huge]

\* a local Floorplan that is not in scope
OutOfScope == [status |-> "none", cost |-> NoFp]

\* initial_tree(rng) or perturb(rng) on f
Mutated(f) == [f EXCEPT !.status = "mutated"]

\* f.pack()
Packed(f) == [f EXCEPT !.status = IF @ = "mutated" THEN "packed" ELSE @]

\* f.calculate_cost() giving cost c from the chip totals f holds
Evaluated(f, c) ==
    CASE f.status = "packed" -> [status |-> "evaluated", cost |-> c]
      [] f.status = "mutated" -> [f EXCEPT !.cost = c]
      [] OTHER -> f

\* std::min_element with `a.cost < b.cost`: the first of the cheapest
MinElement(v) ==
    v[SetMin({k \in DOMAIN v : \A j \in DOMAIN v : v[k].cost <= v[j].cost})]

\* a result of run() that an earlier invocation left in the ledger
EvaluatedFps == [status : {"evaluated"}, cost : Costs]

EvalInit ==
    /\ blocks = Catalogue(MaxBlocks)
    /\ tree = [i \in {} |-> Node(0)]
    /\ root_id = NIL
    /\ chip_width = 0 /\ chip_height = 0 /\ chip_area = 0
    /\ ub = FALSE
    /\ lastCall = [f |-> "read_blocks", op |-> NIL]
    /\ SAConstructed
    /\ now = 0
    /\ seed = [w \in Workers |-> NIL]
    /\ master_seed = NIL
    /\ sa_params = [num |-> 1, den |-> 1]
    /\ steps = NIL
    /\ origin = << >>
    /\ attempts = << >>
    /\ arg \in [s : Strategies, tid : Workers]
    /\ \E g \in {DefaultFp} \cup EvaluatedFps :
          ret = [pc |-> "run", elapsed |-> FALSE, base_fp |-> DefaultFp,
                 global_best_fp |-> g,
                 best_fp_this_thread |-> OutOfScope, current_fp |-> OutOfScope,
                 best_in_run |-> OutOfScope, next_fp |-> OutOfScope,
                 candidates |-> << >>, replicas |-> << >>,
                 T |-> 0, i |-> 0, read |-> {}]

\* the statement at the thread's position leaves the locals r
EvalStep(r) ==
    /\ ret' = r
    /\ UNCHANGED <<arg, fpvars, savars, runvars, setupvars, exchvars>>

\* the locals with nothing read by the statement
Quiet == [ret EXCEPT !.read = {}]

\* the deadline start_time + time_limit passes
EvDeadline ==
    /\ ret.pc \notin {"run", "returned"}
    /\ ~ret.elapsed
    /\ EvalStep([ret EXCEPT !.elapsed = TRUE])

\* run(strategy): the head of the strategy's function
EvRun ==
    /\ ret.pc = "run"
    /\ EvalStep(IF arg.s = "ParallelTempering_Medium"
                THEN [Quiet EXCEPT !.pc = "pt_tree",
                                   !.replicas = [k \in Workers |-> ret.base_fp],
                                   !.i = 0]
                ELSE [Quiet EXCEPT !.pc = "outer",
                                   !.best_fp_this_thread = DefaultFp])

(* ---- multistart and parallel moves: the run of one worker ---- *)

\* `while (now - start_time < time_limit)` and `current_fp = base_fp;
\* current_fp.initial_tree(rng);`
EvOuter ==
    /\ ret.pc = "outer"
    /\ EvalStep(IF ret.elapsed
                THEN [Quiet EXCEPT !.pc = "crit"]
                ELSE [Quiet EXCEPT !.pc = "init_pack",
                                   !.current_fp = Mutated(ret.base_fp)])

\* `current_fp.pack();`
EvInitPack ==
    /\ ret.pc = "init_pack"
    /\ EvalStep([Quiet EXCEPT !.pc = "init_cost", !.current_fp = Packed(@)])

\* `current_fp.calculate_cost(); Floorplan best_in_run = current_fp;`
EvInitCost ==
    /\ ret.pc = "init_cost"
    /\ \E c \in Costs :
          LET f == Evaluated(ret.current_fp, c)
          IN  EvalStep([ret EXCEPT !.pc = "inner", !.current_fp = f,
                                   !.best_in_run = f, !.T = T_start,
                                   !.read = {f}])

\* the test of the temperature loop
EvInner ==
    /\ ret.pc = "inner"
    /\ EvalStep(IF ret.T > T_min /\ ~ret.elapsed
                THEN [Quiet EXCEPT !.pc = "for", !.i = 0]
                ELSE [Quiet EXCEPT !.pc = "merge"])

\* the test of the batch loop; multistart: `Floorplan next_fp = current_fp;`
\* parallel moves: `candidates(num_threads, current_fp)`
EvFor ==
    /\ ret.pc = "for"
    /\ EvalStep(IF ret.i < StepsPerTemp
                THEN IF arg.s = "MultiStart_Coarse"
                     THEN [Quiet EXCEPT !.pc = "perturb", !.next_fp = ret.current_fp]
                     ELSE [Quiet EXCEPT !.pc = "pm_perturb",
                                        !.candidates = [k \in Workers |-> ret.current_fp]]
                ELSE [Quiet EXCEPT !.pc = "inner", !.T = Cool(@)])

\* `next_fp.perturb(rng);`
EvPerturb ==
    /\ ret.pc = "perturb"
    /\ EvalStep([Quiet EXCEPT !.pc = "pack", !.next_fp = Mutated(@)])

\* `next_fp.pack();`
EvPack ==
    /\ ret.pc = "pack"
    /\ EvalStep([Quiet EXCEPT !.pc = "cost", !.next_fp = Packed(@)])

\* `next_fp.calculate_cost();`
EvCost ==
    /\ ret.pc = "cost"
    /\ \E c \in Costs :
          EvalStep([Quiet EXCEPT !.pc = "metropolis", !.next_fp = Evaluated(@, c)])

\* multistart lines 404-412: delta, the Metropolis test, `current_fp =
\* next_fp` and the update of best_in_run
EvMetropolis ==
    /\ ret.pc = "metropolis"
    /\ arg.s = "MultiStart_Coarse"
    /\ \E draw \in BOOLEAN :
          LET acc == MetropolisAccepts(ret.next_fp.cost - ret.current_fp.cost, draw)
              cur == IF acc THEN ret.next_fp ELSE ret.current_fp
          IN  EvalStep([ret EXCEPT
                  !.pc = "for", !.i = @ + 1,
                  !.current_fp = cur,
                  !.best_in_run = IF acc /\ cur.cost < @.cost THEN cur ELSE @,
                  !.next_fp = OutOfScope,
                  !.read = {ret.next_fp, ret.current_fp}
                           \cup (IF acc THEN {ret.best_in_run} ELSE {})])

\* the thread's share of the work-shared loop: `candidates[k].perturb(..)`
EvPmPerturb ==
    /\ ret.pc = "pm_perturb"
    /\ EvalStep([Quiet EXCEPT !.pc = "pm_pack", !.candidates[arg.tid] = Mutated(@)])

\* `candidates[k].pack();`
EvPmPack ==
    /\ ret.pc = "pm_pack"
    /\ EvalStep([Quiet EXCEPT !.pc = "pm_cost", !.candidates[arg.tid] = Packed(@)])

\* `candidates[k].calculate_cost();`
EvPmCost ==
    /\ ret.pc = "pm_cost"
    /\ \E c \in Costs :
          EvalStep([Quiet EXCEPT !.pc = "pm_select",
                                 !.candidates[arg.tid] = Evaluated(@, c)])

\* parallel moves lines 584-596: min_element over the candidates, delta, the
\* Metropolis test and the update of current_fp and best_in_run
EvPmSelect ==
    /\ ret.pc = "pm_select"
    /\ \E draw \in BOOLEAN :
          LET best_candidate == MinElement(ret.candidates)
              acc == MetropolisAccepts(best_candidate.cost - ret.current_fp.cost, draw)
              cur == IF acc THEN best_candidate ELSE ret.current_fp
          IN  EvalStep([ret EXCEPT
                  !.pc = "for", !.i = @ + 1,
                  !.current_fp = cur,
                  !.best_in_run = IF acc /\ cur.cost < @.cost THEN cur ELSE @,
                  !.candidates = << >>,
                  !.read = {ret.candidates[k] : k \in Workers} \cup {ret.current_fp}
                           \cup (IF acc THEN {ret.best_in_run} ELSE {})])

\* lines 418-420 and 601-603: the merge of the run's best into the worker's
EvMerge ==
    /\ ret.pc = "merge"
    /\ EvalStep([ret EXCEPT
           !.pc = "outer",
           !.best_fp_this_thread = IF ret.best_in_run.cost < @.cost
                                   THEN ret.best_in_run ELSE @,
           !.current_fp = OutOfScope, !.best_in_run = OutOfScope,
           !.read = {ret.best_in_run, ret.best_fp_this_thread}])

\* the critical section: the compare with the ledger and the replacement
EvCritical ==
    /\ ret.pc = "crit"
    /\ EvalStep([ret EXCEPT
           !.pc = "return",
           !.global_best_fp = IF ret.best_fp_this_thread.cost < @.cost
                              THEN ret.best_fp_this_thread ELSE @,
           !.best_fp_this_thread = OutOfScope,
           !.read = {ret.best_fp_this_thread, ret.global_best_fp}])

\* `return global_best_fp;`
EvReturn ==
    /\ ret.pc = "return"
    /\ EvalStep([ret EXCEPT !.pc = "returned", !.read = {ret.global_best_fp}])

(* ---- parallel tempering ---- *)

\* `replicas[i].initial_tree(seeder_rng);`
EvPtTree ==
    /\ ret.pc = "pt_tree"
    /\ EvalStep([Quiet EXCEPT !.pc = "pt_pack", !.replicas[ret.i] = Mutated(@)])

\* `replicas[i].pack();`
EvPtPack ==
    /\ ret.pc = "pt_pack"
    /\ EvalStep([Quiet EXCEPT !.pc = "pt_cost", !.replicas[ret.i] = Packed(@)])

\* `replicas[i].calculate_cost();` and the next iteration of the loop
EvPtCost ==
    /\ ret.pc = "pt_cost"
    /\ \E c \in Costs :
          EvalStep([Quiet EXCEPT
              !.replicas[ret.i] = Evaluated(@, c),
              !.i = IF @ + 1 < NumWorkers THEN @ + 1 ELSE 0,
              !.pc = IF ret.i + 1 < NumWorkers THEN "pt_tree" ELSE "pt_min"])

\* `global_best_fp = *std::min_element(replicas ...)`
EvPtMin ==
    /\ ret.pc = "pt_min"
    /\ EvalStep([ret EXCEPT !.pc = "pt_top",
                            !.global_best_fp = MinElement(ret.replicas),
                            !.read = {ret.replicas[k] : k \in Workers}])

\* the deadline test at the top of a round
EvPtTop ==
    /\ ret.pc = "pt_top"
    /\ EvalStep(IF ret.elapsed
                THEN [Quiet EXCEPT !.pc = "return"]
                ELSE [Quiet EXCEPT !.pc = "pt_for", !.i = 0])

\* the test of the sweep loop and `Floorplan next_fp = replicas[tid];`; after
\* the sweep the master goes on to the exchange, the others to the next round
EvPtFor ==
    /\ ret.pc = "pt_for"
    /\ EvalStep(IF ret.i < StepsPerTemp
                THEN [Quiet EXCEPT !.pc = "perturb", !.next_fp = ret.replicas[arg.tid]]
                ELSE [Quiet EXCEPT !.pc = IF arg.tid = Master THEN "pt_exchange"
                                          ELSE "pt_top",
                                   !.i = 0])

\* tempering lines 492-496: delta, the Metropolis test, `replicas[tid] = next_fp`
EvPtMetropolis ==
    /\ ret.pc = "metropolis"
    /\ arg.s = "ParallelTempering_Medium"
    /\ \E draw \in BOOLEAN :
          LET acc == MetropolisAccepts(ret.next_fp.cost - ret.replicas[arg.tid].cost, draw)
          IN  EvalStep([ret EXCEPT
                  !.pc = "pt_for", !.i = @ + 1,
                  !.replicas[arg.tid] = IF acc THEN ret.next_fp ELSE @,
                  !.next_fp = OutOfScope,
                  !.read = {ret.next_fp, ret.replicas[arg.tid]}])

\* one iteration of the exchange loop of the master block
EvPtExchange ==
    /\ ret.pc = "pt_exchange"
    /\ \E draw \in BOOLEAN :
          EvalStep([ret EXCEPT
              !.replicas = IF ExchangeSwaps(@[ret.i].cost, @[ret.i + 1].cost,
                                            TemperatureLadder(NumWorkers)[ret.i],
                                            TemperatureLadder(NumWorkers)[ret.i + 1],
                                            draw)
                           THEN SwapSlots(@, ret.i) ELSE @,
              !.i = IF @ + 1 < NumWorkers - 1 THEN @ + 1 ELSE 0,
              !.pc = IF ret.i + 1 < NumWorkers - 1 THEN "pt_exchange" ELSE "pt_update",
              !.read = {ret.replicas[ret.i], ret.replicas[ret.i + 1]}])

\* one iteration of `for (rep : replicas)` of the master block
EvPtUpdate ==
    /\ ret.pc = "pt_update"
    /\ EvalStep([ret EXCEPT
           !.global_best_fp = IF ret.replicas[ret.i].cost < @.cost
                              THEN ret.replicas[ret.i] ELSE @,
           !.i = IF @ + 1 < NumWorkers THEN @ + 1 ELSE 0,
           !.pc = IF ret.i + 1 < NumWorkers THEN "pt_update" ELSE "pt_top",
           !.read = {ret.replicas[ret.i], ret.global_best_fp}])

EvalNext ==
    \/ EvDeadline \/ EvRun
    \/ EvOuter \/ EvInitPack \/ EvInitCost \/ EvInner \/ EvFor
    \/ EvPerturb \/ EvPack \/ EvCost \/ EvMetropolis
    \/ EvPmPerturb \/ EvPmPack \/ EvPmCost \/ EvPmSelect
    \/ EvMerge \/ EvCritical \/ EvReturn
    \/ EvPtTree \/ EvPtPack \/ EvPtCost \/ EvPtMin \/ EvPtTop \/ EvPtFor
    \/ EvPtMetropolis \/ EvPtExchange \/ EvPtUpdate

EvalSpec == EvalInit /\ [][EvalNext]_vars

-----------------------------------------------------------------------------
(* CounterSpec: the statistics counters moves_total and moves_accepted,   *)
(* incremented by every worker of the team without `omp atomic`            *)

\* run() has zeroed the counters (lines 349-350) and the team has started;
\* decisions and acceptances count what the workers do
CounterInit ==
    /\ blocks = Catalogue(MaxBlocks)
    /\ tree = [i \in {} |-> Node(0)]
    /\ root_id = NIL
    /\ chip_width = 0 /\ chip_height = 0 /\ chip_area = 0
    /\ ub = FALSE
    /\ lastCall = [f |-> "read_blocks", op |-> NIL]
    /\ SAConstructed
    /\ now = 0
    /\ seed = [w \in Workers |-> NIL]
    /\ master_seed = NIL
    /\ sa_params = [num |-> 1, den |-> 1]
    /\ steps = NIL
    /\ origin = << >>
    /\ attempts = << >>
    /\ arg \in Strategies
    /\ ret = [main |-> "running",
              moves_total |-> 0, moves_accepted |-> 0,
              decisions |-> 0, acceptances |-> 0,
              pc |-> [w \in Workers |-> "for"],
              i |-> [w \in Workers |-> 0],
              reg |-> [w \in Workers |-> 0],
              acc |-> [w \in Workers |-> FALSE]]

\* a step of the team leaves the counters and the workers' positions r
CounterStep(r) ==
    /\ ret' = r
    /\ UNCHANGED <<arg, fpvars, savars, runvars, setupvars, exchvars>>

\* the test of the batch loop `for (int i = 0; i < steps_per_temp; ++i)`
CntFor(w) ==
    /\ ret.main = "running"
    /\ ret.pc[w] = "for"
    /\ CounterStep([ret EXCEPT !.pc[w] = IF ret.i[w] < StepsPerTemp
                                        THEN "load_total" ELSE "end"])

\* `++moves_total;`: the read of the shared counter
CntLoadTotal(w) ==
    /\ ret.pc[w] = "load_total"
    /\ CounterStep([ret EXCEPT !.reg[w] = ret.moves_total, !.pc[w] = "store_total"])

\* `++moves_total;`: the write of the value read plus one
CntStoreTotal(w) ==
    /\ ret.pc[w] = "store_total"
    /\ CounterStep([ret EXCEPT !.moves_total = ret.reg[w] + 1, !.pc[w] = "decide"])

\* the Metropolis test of the proposal
CntDecide(w) ==
    /\ ret.pc[w] = "decide"
    /\ \E a \in BOOLEAN :
          CounterStep([ret EXCEPT !.decisions = @ + 1,
                                  !.acceptances = IF a THEN @ + 1 ELSE @,
                                  !.acc[w] = a,
                                  !.i[w] = IF a THEN @ ELSE @ + 1,
                                  !.pc[w] = IF a THEN "load_accepted" ELSE "for"])

\* `++moves_accepted;`: the read of the shared counter
CntLoadAccepted(w) ==
    /\ ret.pc[w] = "load_accepted"
    /\ CounterStep([ret EXCEPT !.reg[w] = ret.moves_accepted,
                               !.pc[w] = "store_accepted"])

\* `++moves_accepted;`: the write of the value read plus one
CntStoreAccepted(w) ==
    /\ ret.pc[w] = "store_accepted"
    /\ CounterStep([ret EXCEPT !.moves_accepted = ret.reg[w] + 1,
                               !.i[w] = @ + 1,
                               !.pc[w] = "for"])

\* the end of the parallel region and `return global_best_fp;`
CntReturn ==
    /\ ret.main = "running"
    /\ \A w \in Workers : ret.pc[w] = "end"
    /\ CounterStep([ret EXCEPT !.main = "returned"])

CounterNext ==
    \/ CntReturn
    \/ \E w \in Workers :
          \/ CntFor(w) \/ CntLoadTotal(w) \/ CntStoreTotal(w) \/ CntDecide(w)
          \/ CntLoadAccepted(w) \/ CntStoreAccepted(w)

CounterSpec == CounterInit /\ [][CounterNext]_vars

-----------------------------------------------------------------------------
(* Properties of the ledger (global_best_fp) and of the strategies *)

\* positions at which a worker reads or writes global_best_fp
CriticalPcs == {"ms_crit", "ms_write", "ms_log", "pm_crit", "pm_write", "pm_log"}
MasterBlockLedgerPcs == {"pt_gb", "pt_log"}
LedgerPcs == CriticalPcs \cup MasterBlockLedgerPcs

\* C4: at most one worker at a time reads or writes global_best_fp: in
\* multistart and parallel moves only the holder of the critical section,
\* in tempering only the master while every other worker is between
\* Barrier 1 and Barrier 2; the write before the tempering team starts is
\* made while no worker runs.
C4_LedgerExclusive ==
    /\ \A v, w \in Workers :
          (v # w /\ pc[v] \in LedgerPcs) => pc[w] \notin LedgerPcs
    /\ \A w \in Workers : pc[w] \in CriticalPcs => lock = w
    /\ \A w \in Workers :
          pc[w] \in MasterBlockLedgerPcs =>
              /\ w = Master
              /\ \A v \in Workers \ {w} : pc[v] \in {"pt_b2", "done"}
    /\ main = "pt_init" => \A w \in Workers : pc[w] \in {"idle", "done"}

\* one worker replaces the ledger's record while the other waits to enter
\* the critical section
C4_Witness ==
    \E v, w \in Workers :
        /\ pc[v] = "ms_write"
        /\ pc[w] = "ms_crit_wait"
        /\ best_fp_this_thread[w] < best_fp_this_thread[v]

\* C5: the cost stored in the ledger never increases, over any sequence of
\* run() calls.
C5_LedgerNeverIncreases == [][global_best_fp' <= global_best_fp]_vars

EventsMonotone ==
    \A k \in 1..(Len(events) - 1) : events[k + 1] <= events[k]

\* replacements of the record whose log_new_best call has not been made yet
EventsInFlight ==
    Cardinality({w \in Workers : pc[w] \in {"ms_log", "pm_log", "pt_log"}})

\* C6: within one strategy invocation the costs passed to log_new_best are
\* non-increasing and there is one event per replacement of the record.
C6_EventStream ==
    /\ EventsMonotone
    /\ Len(events) + EventsInFlight = replaced

\* both workers of a multistart run have replaced the record and logged it
C6_Witness ==
    /\ strategy = "MultiStart_Coarse"
    /\ Len(events) = 2
    /\ events[2] < events[1]
    /\ \A w \in Workers : pc[w] = "end"

\* the cost of the state worker w holds (its current tree, or its replica)
HeldCost(w) ==
    IF strategy = "ParallelTempering_Medium" THEN replicas[w] ELSE current_fp[w]

C8_AllArriveAtBarrier ==
    \A w \in Workers :
        pc[w] \in {"pt_b1", "pt_b2"} => \A v \in Workers : pc[v] \notin {"end", "done"}

ExchangePhase == \E w \in Workers : pc[w] \in {"pt_exch", "pt_gb", "pt_log"}

\* C9: in tempering, while the exchange and the ledger update of a round run
\* all W workers have finished their steps_per_swap sweep proposals of that
\* round and every worker but the master waits at Barrier 2, so that none
\* is at the top of, or inside, a sweep of the next round.
C9_SweepExchangeOrder ==
    ExchangePhase =>
        /\ pc[Master] \in {"pt_exch", "pt_gb", "pt_log"}
        /\ \A w \in Workers \ {Master} : pc[w] = "pt_b2"
        /\ \A w \in Workers : step[w] = StepsPerTemp

\* the replica slots worker w touches at its position, and whether it writes
SlotsOf(w) ==
    CASE pc[w] = "pt_sweep" -> {w}
      [] pc[w] = "pt_exch" -> {xi, xi + 1}
      [] pc[w] \in {"pt_gb", "pt_log"} -> {xi}
      [] OTHER -> {}
WritesSlots(w) == pc[w] \in {"pt_sweep", "pt_exch"}

\* slot k changes only in a sweep step of worker k or in an exchange step
SlotWrittenByOwner ==
    \A k \in Workers :
        (replicas'[k] # replicas[k] /\ main = "running" /\ main' = "running") =>
            \/ pc[k] = "pt_sweep"
            \/ pc[Master] = "pt_exch" /\ k \in {xi, xi + 1}

\* C10: in tempering no two workers touch the same replica slot at the same
\* time with one of them writing: in a sweep worker i touches slot i only,
\* in the exchange phase only the master touches the replica vector.
C10_ReplicaOwnership ==
    /\ [](\A v, w \in Workers :
             (v # w /\ (WritesSlots(v) \/ WritesSlots(w)))
                 => SlotsOf(v) \cap SlotsOf(w) = {})
    /\ [](\A w \in Workers : pc[w] \in {"pt_exch", "pt_gb", "pt_log"} =>
             /\ w = Master
             /\ \A v \in Workers \ {w} : SlotsOf(v) = {})
    /\ [][SlotWrittenByOwner]_vars

\* the master has finished the exchange of two replicas that their workers
\* changed in the sweep, the hotter one now the cheaper
C10_Witness ==
    /\ pc[Master] = "pt_gb"
    /\ \A w \in Workers : accepted[w]
    /\ replicas[0] > replicas[1]

-----------------------------------------------------------------------------
(* Properties of the parallel-moves and multistart strategies *)

\* C11: in parallel moves, at every selection each of the W candidates the
\* worker compares has been perturbed, packed and evaluated, and the
\* candidate submitted to the Metropolis test is the cheapest of those W
\* perturbed candidates.
C11_CandidatesAllPerturbed ==
    \A w \in Workers :
        pc[w] = "pm_sel" =>
            /\ perturbed[w] = Workers
            /\ MinCost(candidates[w]) = SetMin({candidates[w][k] : k \in perturbed[w]})

\* C12: in parallel moves, when a worker waits at the implicit barrier of the
\* work-shared candidate loop no other worker has left its loops: all
\* workers arrive at that barrier the same number of times.
C12_AllReachWorkshareBarrier ==
    \A w \in Workers :
        pc[w] = "pm_bar" =>
            \A v \in Workers :
                pc[v] \notin {"pm_crit_wait", "pm_crit", "pm_write", "pm_log", "end", "done"}

\* C13: in multistart each worker executes the compare-and-replace on the
\* ledger exactly once, after its deadline loop, and when run() returns the
\* ledger's cost is the minimum of its cost at the call and of the lowest
\* cost any worker has found.
C13_MultistartMerge ==
    strategy = "MultiStart_Coarse" =>
        /\ \A w \in Workers :
              merges[w] = IF pc[w] \in {"ms_write", "ms_log", "end", "done"} THEN 1 ELSE 0
        /\ main = "returned" =>
              global_best_fp = SetMin({ledger0} \cup {found[w] : w \in Workers})

\* a second multistart run has returned with a record cheaper than the one
\* it was called with, which the worker that found less did not hold
C13_Witness ==
    /\ strategy = "MultiStart_Coarse"
    /\ main = "returned"
    /\ ledger0 # Huge
    /\ global_best_fp < ledger0
    /\ \E v, w \in Workers : found[v] < found[w]

\* C14: the floorplan run() returns has one node per catalogue block and its
\* cost field is the cost of that tree: it is a floorplan that was built,
\* packed and evaluated, not the default-constructed one (no node, cost
\* field 1e18) the constructor leaves in global_best_fp.
C14_ReturnsEvaluatedFloorplan ==
    main = "returned" => global_best_fp \in Costs

-----------------------------------------------------------------------------
(* Properties of the deadline tests *)

\* positions inside a batch of steps_per_temp (steps_per_swap) proposals,
\* and the positions of the deadline tests that guard a batch
BatchPcs == {"ms_step", "pm_for", "pm_bar", "pm_sel", "pt_sweep"}
DeadlineTestPcs == {"ms_inner", "pm_inner", "pt_top"}

\* a worker enters a batch only by a deadline test that finds the deadline
\* not elapsed
BatchEntry ==
    \A w \in Workers :
        (pc[w] \notin BatchPcs /\ pc'[w] \in BatchPcs) =>
            (pc[w] \in DeadlineTestPcs /\ ~elapsed)

\* a worker leaves a batch only with all of its proposals made
BatchExit ==
    \A w \in Workers :
        (pc[w] \in BatchPcs /\ pc'[w] \notin BatchPcs) => step'[w] = StepsPerTemp

\* a worker inside a batch is not left at a barrier of the batch by a
\* worker that is out of the parallel region, which it would wait for
\* for ever with proposals of the batch still to make
BatchNotAbandoned ==
    \A w \in Workers :
        (pc[w] \in BatchPcs /\ pc[w] \in WaitPcs) => \A v \in Workers : pc[v] # "done"

\* C15: a worker starts a batch of proposals only right after a deadline
\* test that found the deadline not elapsed (so never after a test that
\* found it elapsed), and a batch once started is performed to its last
\* proposal whether or not the deadline elapses meanwhile.
C15_DeadlineAtBatchBoundaries ==
    /\ [][BatchEntry /\ BatchExit]_vars
    /\ []BatchNotAbandoned

-----------------------------------------------------------------------------
(* Properties of the set-up: seeds and batch size *)

\* C16: within one invocation no two workers build their RNGs from the same
\* seed (timestamp + worker id).
C16_WorkerSeedsDistinct ==
    \A v, w \in Workers :
        (v # w /\ seed[v] # NIL /\ seed[w] # NIL) => seed[v] # seed[w]

\* C17: in tempering the seed of the RNG of the exchange decisions differs
\* from the seed of every worker's RNG.
C17_MasterSeedDistinct ==
    \A w \in Workers :
        (master_seed # NIL /\ seed[w] # NIL) => master_seed # seed[w]

\* the least integer not below num * n / den
CeilOfProduct(num, den, n) == (num * n + den - 1) \div den

\* C18: in every strategy the batch size is the ceiling of factor * n and is
\* at least 1.
C18_StepsIsCeiling ==
    steps # NIL =>
        /\ steps = CeilOfProduct(sa_params.num, sa_params.den, NumBlocks)
        /\ steps >= 1

-----------------------------------------------------------------------------
(* Properties of the exchange rounds of tempering *)

\* v with the contents of slots i and i+1 exchanged and every other slot kept
Transposed(v, i) ==
    [k \in DOMAIN v |-> IF k = i THEN v[i + 1] ELSE IF k = i + 1 THEN v[i] ELSE v[k]]

\* a step of the exchange phase is the attempt for the next index i, made once,
\* on the costs then held in slots i and i+1, and changes the replica vector
\* by the transposition of those slots or not at all
AdjacentAttempt ==
    pc[Master] = "pt_exch" =>
        /\ Len(attempts') = Len(attempts) + 1
        /\ SubSeq(attempts', 1, Len(attempts)) = attempts
        /\ LET a == attempts'[Len(attempts')]
           IN  /\ a.i = Len(attempts)
               /\ a.i <= ExchangeSlots - 2
               /\ a.cost1 = replicas[a.i]
               /\ a.cost2 = replicas[a.i + 1]
               /\ replicas' = IF a.swapped THEN Transposed(replicas, a.i) ELSE replicas
               /\ origin' = IF a.swapped THEN Transposed(origin, a.i) ELSE origin

\* outside the exchange phase no attempt is made
NoAttemptElsewhere ==
    pc[Master] # "pt_exch" => (attempts' = attempts \/ attempts' = << >>)

\* a finished round made the attempts 0 .. W-2 in this order
RoundAttempts ==
    pc[Master] = "pt_gb" =>
        /\ Len(attempts) = ExchangeSlots - 1
        /\ \A k \in 1..Len(attempts) : attempts[k].i = k - 1

\* the replica state that started the round in slot 0 is in slot 3 only if
\* the swaps (0,1), (1,2), (2,3) were all made
FarSlotNeedsThreeSwaps ==
    origin[3] = 0 =>
        /\ Len(attempts) >= 3
        /\ \A k \in 1..3 : attempts[k].swapped

\* C19: in one exchange round every change of the replica vector is a
\* transposition of adjacent slots (i, i+1), attempted once for each
\* i = 0..W-2 in increasing i on the costs then held in those slots; the
\* replica state of slot 0 ends in slot 3 only if the swaps (0,1), (1,2) and
\* (2,3) all succeed in that round.
C19_AdjacentTranspositions ==
    /\ [][AdjacentAttempt /\ NoAttemptElsewhere]_vars
    /\ [](RoundAttempts /\ FarSlotNeedsThreeSwaps)

C19_Witness ==
    /\ pc[Master] = "pt_gb"
    /\ origin[3] = 0
    /\ \E k \in 1..3 : attempts[k].cost1 > attempts[k].cost2

\* the temperature of every slot is the one the initialisation gave it
TemperaturesInitial ==
    /\ DOMAIN temperatures = ExchangeTeam
    /\ \A i \in ExchangeTeam : temperatures[i] = [T_max |-> T_start, alpha_pow |-> i]

\* a step in which a swap succeeds exchanges the replica states of slots i
\* and i+1 and changes neither another slot nor a temperature
SwapFrame ==
    (pc[Master] = "pt_exch" /\ replicas' # replicas) =>
        /\ replicas' = Transposed(replicas, xi)
        /\ temperatures' = temperatures

\* C20: in tempering the temperature vector is never modified after its
\* initialisation, whatever the number of sweep and exchange rounds, and a
\* successful swap exchanges only the replica states of slots i and i+1.
C20_TemperaturesBoundToSlots ==
    /\ []TemperaturesInitial
    /\ [][SwapFrame /\ temperatures' = temperatures]_vars

C20_Witness ==
    /\ replaced >= 2
    /\ Len(attempts) >= 2
    /\ attempts[2].swapped
    /\ replicas[1] # replicas[2]

-----------------------------------------------------------------------------
(* Completeness of the move and swap perturbations *)

\* a floorplan as a block-labelled tree over its node array: the root and, for
\* every node, its block and links
TreeKey(t, root) ==
    [root |-> root,
     links |-> [i \in DOMAIN t |->
                  [block_id |-> t[i].block_id, parent |-> t[i].parent,
                   left |-> t[i].left, right |-> t[i].right]]]

\* the floorplans one swap (op 4..7) or one move (op 8..10) leads to
MoveSwapImages(x) ==
    {perturb(x.tree, x.root_id, 4, a, b, 0, 0) : a \in DOMAIN x.tree, b \in DOMAIN x.tree}
    \cup
    {perturb(x.tree, x.root_id, 8, m[1], m[2], 0, m[3]) :
        m \in {q \in (DOMAIN x.tree) \X (DOMAIN x.tree) \X (0..1) : q[1] # q[2]}}

RECURSIVE MoveSwapClosure(_, _)
\* the floorplans reached from `frontier` by finitely many moves and swaps,
\* `done` being those already expanded
MoveSwapClosure(done, frontier) ==
    IF frontier = {} THEN done
    ELSE LET seen == done \cup frontier
         IN  MoveSwapClosure(seen, (UNION {MoveSwapImages(x) : x \in frontier}) \ seen)

\* the depth of node i under the parent function par, n + 1 on a cycle
RECURSIVE DepthIn(_, _, _)
DepthIn(par, i, fuel) ==
    IF fuel = 0 THEN 1
    ELSE IF par[i] = NIL THEN 0
    ELSE 1 + DepthIn(par, par[i], fuel - 1)

\* every rooted binary tree on the nodes 0..n-1 with every assignment of the
\* n blocks to the nodes
AllLabelledTrees(n) ==
    LET N == 0..(n - 1)
        Shapes ==
            {sh \in [par : [N -> N \cup {NIL}], isleft : [N -> BOOLEAN]] :
                /\ Cardinality({i \in N : sh.par[i] = NIL}) = 1
                /\ \A i \in N : DepthIn(sh.par, i, n) < n
                /\ \A i, j \in N :
                      (i # j /\ sh.par[i] # NIL /\ sh.par[i] = sh.par[j])
                          => sh.isleft[i] # sh.isleft[j]}
        Child(sh, i, side) ==
            LET C == {c \in N : sh.par[c] = i /\ sh.isleft[c] = side}
            IN  IF C = {} THEN NIL ELSE CHOOSE c \in C : TRUE
    IN  {[root |-> CHOOSE i \in N : sh.par[i] = NIL,
          links |-> [i \in N |->
                       [block_id |-> p[i], parent |-> sh.par[i],
                        left |-> Child(sh, i, TRUE), right |-> Child(sh, i, FALSE)]]] :
            sh \in Shapes, p \in Permutations0(n)}

\* the block-labelled trees reachable from the current one by moves and swaps
ReachableByMoveSwap ==
    {TreeKey(x.tree, x.root_id) :
        x \in MoveSwapClosure({}, {[tree |-> tree, root_id |-> root_id]})}

\* C21: for n >= 2, from any initial left-spine tree every rooted binary tree
\* on the n nodes with every assignment of the n blocks to the nodes is
\* reached by a finite sequence of move and swap perturbations.
C21_MoveSwapComplete ==
    (lastCall.f = "initial_tree" /\ NumBlocks >= 2) =>
        AllLabelledTrees(NumBlocks) \subseteq ReachableByMoveSwap

\* from a three-node left spine the moves and swaps reach the tree rooted at
\* node 2 with node 1 as left and node 0 as right child and the blocks of
\* nodes 0 and 2 exchanged
C21_Witness ==
    /\ lastCall.f = "initial_tree"
    /\ NumBlocks = 3
    /\ \E k \in ReachableByMoveSwap :
          /\ k.root = 2
          /\ k.links[2].left = 1 /\ k.links[2].right = 0
          /\ k.links[0].block_id = tree[2].block_id
          /\ k.links[2].block_id = tree[0].block_id

-----------------------------------------------------------------------------
(* detach followed by attach *)

\* the floorplan is the one detach was called on
Restored == tree = arg.tree /\ root_id = arg.root_id

OppositeChildAbsent ==
    IF arg.is_left THEN arg.tree[arg.u].right = NIL ELSE arg.tree[arg.u].left = NIL

-----------------------------------------------------------------------------
(* pack as a function of the block-labelled tree *)

\* the image of a link under the re-indexing pi of the node array
Relink(pi, k) == IF k = NIL THEN NIL ELSE pi[k]

\* the same block-labelled tree stored with node i at index pi[i]
Reindexed(t, pi) ==
    [j \in DOMAIN t |->
        LET i == CHOOSE q \in DOMAIN t : pi[q] = j
        IN  [t[i] EXCEPT !.parent = Relink(pi, @),
                         !.left = Relink(pi, @),
                         !.right = Relink(pi, @)]]

\* the same tree with the coordinates of another layout left in every node
WithStaleCoordinates(t, v) == [i \in DOMAIN t |-> [t[i] EXCEPT !.x = v, !.y = v]]

\* what pack delivers: the (x,y) of every block and the chip totals
Layout(t, cw, ch, ca) ==
    [at |-> [b \in {t[i].block_id : i \in DOMAIN t} |->
               LET i == CHOOSE q \in DOMAIN t : t[q].block_id = b
               IN  <<t[i].x, t[i].y>>],
     chip_width |-> cw, chip_height |-> ch, chip_area |-> ca]

\* C23: pack is a function of the block-labelled tree only: a tree state equal
\* to the packed one as a block-labelled tree with the same variants, stored at
\* other node indices and carrying stale coordinates and chip totals, receives
\* the same (x,y) for every block and the same chip width, height and area.
C23_PackDeterminedByLabelledTree ==
    lastCall.f = "pack" =>
        \A pi \in Permutations0(NumBlocks) :
        \A v \in {0, chip_width + chip_height + 1} :
        \A g \in BOOLEAN :
            LET r == pack(WithStaleCoordinates(Reindexed(tree, pi), v), pi[root_id],
                          v, v, v, g)
            IN  Layout(r.tree, r.chip_width, r.chip_height, r.chip_area)
                    = Layout(tree, chip_width, chip_height, chip_area)

\* a packed three-node tree with a left and a right child under the root,
\* placed away from the origin
C23_Witness ==
    /\ lastCall.f = "pack"
    /\ NumBlocks = 3
    /\ tree[root_id].left # NIL /\ tree[root_id].right # NIL
    /\ root_id # 0
    /\ tree[tree[root_id].right].y > 0

-----------------------------------------------------------------------------
(* Properties of the name comparator *)

\* compare(a, b) returned true
Before(a, b) ==
    LET r == compareBlockNames(a, b) IN r.threw = "" /\ r.value

\* compare(a, b) returned
Returns(a, b) == compareBlockNames(a, b).threw = ""

\* C24: compareBlockNames is a strict total order on block names: it is
\* irreflexive and transitive, and of two distinct names a and b exactly one
\* of compare(a,b), compare(b,a) is true.
C24_StrictTotalOrder ==
    ret # NotCalled =>
        LET a == arg[1]
            b == arg[2]
        IN  /\ Returns(a, b)
            /\ a = b => ~Before(a, b)
            /\ a # b => (Before(a, b) <=> ~Before(b, a))
            /\ \A c \in Names : (Before(a, b) /\ Before(b, c)) => Before(a, c)

\* the name has no digit
Digitless(a) == FirstDigit(a, 1) > Len(a)

\* the number of a name: that of its first run of digits, 0 without digits
NumberOf(a) == ParseDigits(SubSeq(a, FirstDigit(a, 1), Len(a)), 0)

\* C26: for two names with the same non-digit prefix of which at least one has
\* no digits, compareBlockNames returns a result and orders the digit-less
\* name as if its number were 0.
C26_DigitlessIsZero ==
    ret # NotCalled =>
        LET a == arg[1]
            b == arg[2]
        IN  (/\ SubSeq(a, 1, FirstDigit(a, 1) - 1) = SubSeq(b, 1, FirstDigit(b, 1) - 1)
             /\ (Digitless(a) \/ Digitless(b)))
                => /\ ret.threw = ""
                   /\ ret.value = (NumberOf(a) < NumberOf(b))

-----------------------------------------------------------------------------
(* The name order of the INL sums and of the output lines *)

\* the names are in ascending order of their numbers
AscendingNumbers(ns) ==
    \A i, j \in 1..Len(ns) : i < j => NumberOf(ns[i]) <= NumberOf(ns[j])

\* the sum of the squared distances of the blocks named ns[1..k]
RECURSIVE DistanceSum(_, _, _)
DistanceSum(a, ns, k) ==
    IF k = 0 THEN 0
    ELSE a.dist_sq[CHOOSE b \in 1..Len(a.names) : a.names[b] = ns[k]]
             + DistanceSum(a, ns, k - 1)

\* the numbers of the catalogue's names differ pairwise
DistinctNumbers(a) ==
    \A i, j \in 1..Len(a.names) : i # j => NumberOf(a.names[i]) # NumberOf(a.names[j])

\* C25: sorting by compareBlockNames puts names with a common prefix in
\* ascending order of their number (never M10 before M2), and both the sums
\* S_k of calculate_inl and the lines of write_output are taken in this order
\* whatever the order of the blocks in the node array.
C25_NumericNameOrder ==
    ret.f \in {"calculate_inl", "write_output"} =>
        /\ {ret.names[k] : k \in 1..Len(ret.names)}
               = {arg.names[b] : b \in 1..Len(arg.names)}
        /\ Len(ret.names) = Len(arg.names)
        /\ AscendingNumbers(ret.names)
        /\ ret.f = "calculate_inl" =>
              \A k \in 1..Len(ret.names) :
                 ret.s_actual[k] = DistanceSum(arg, ret.names, k)
        /\ DistinctNumbers(arg) =>
              \A q \in Arrangements(1..Len(arg.names), Len(arg.names)) :
                 /\ ret.f = "calculate_inl" =>
                       calculate_inl_sums([arg EXCEPT !.order = q]) = ret
                 /\ ret.f = "write_output" =>
                       write_output_lines([arg EXCEPT !.order = q]) = ret

\* M10 is stored before M2, and the sums take M2 first
C25_Witness ==
    /\ ret.f = "calculate_inl"
    /\ Len(arg.names) = 3
    /\ arg.names[arg.order[1]] = <<"M", "1", "0">>
    /\ arg.names[arg.order[2]] = <<"M", "2">>
    /\ ret.names[2] = <<"M", "2">>
    /\ ret.names[3] = <<"M", "1", "0">>
    /\ ret.s_actual[3] > ret.s_actual[2]

-----------------------------------------------------------------------------
(* The initial tree *)

\* C27: for a catalogue of n >= 1 blocks initial_tree leaves a node array in
\* which node i holds block p[i] for a permutation p, every variant index is
\* within the block's variants and the cached size is that variant's, the
\* root is node 0 without parent, node i+1 is the left child of node i, the
\* last node has no left child and no node has a right child.
C27_InitialLeftSpine ==
    (lastCall.f = "initial_tree" /\ NumBlocks >= 1) =>
        LET n == NumBlocks
        IN  /\ DOMAIN tree = 0..(n - 1)
            /\ {tree[i].block_id : i \in 0..(n - 1)} = 0..(n - 1)
            /\ \A i \in 0..(n - 1) :
                  /\ tree[i].current_dim_idx >= 0
                  /\ tree[i].current_dim_idx < Len(blocks[tree[i].block_id])
                  /\ tree[i].width
                        = blocks[tree[i].block_id][tree[i].current_dim_idx + 1].width
                  /\ tree[i].height
                        = blocks[tree[i].block_id][tree[i].current_dim_idx + 1].height
                  /\ tree[i].right = NIL
            /\ root_id = 0
            /\ tree[0].parent = NIL
            /\ \A i \in 0..(n - 2) : tree[i].left = i + 1 /\ tree[i + 1].parent = i
            /\ tree[n - 1].left = NIL

\* a shuffled three-node spine whose first node took its block's second variant
C27_Witness ==
    /\ lastCall.f = "initial_tree"
    /\ NumBlocks = 3
    /\ tree[0].block_id = 2
    /\ tree[0].current_dim_idx = 1
    /\ tree[2].block_id = 1

-----------------------------------------------------------------------------
(* The empty catalogue *)

\* C28: for an empty catalogue (n = 0) tree initialisation followed by pack
\* completes without reading or writing a node index outside the empty node
\* array and leaves chip width, height and area equal to 0.
C28_EmptyCatalogueSafe ==
    NumBlocks = 0 =>
        /\ ~ub
        /\ lastCall.f # "fault"
        /\ chip_width = 0 /\ chip_height = 0 /\ chip_area = 0

-----------------------------------------------------------------------------
(* The parser of the block file *)

\* the number of opening parentheses on the line being parsed
OpeningParens ==
    Cardinality({k \in 1..Len(arg.lines[ret.line].rest) :
                   arg.lines[ret.line].rest[k] = "("})

\* C29: read_blocks terminates and either returns a catalogue in which every
\* block has at least one shape variant or aborts with a diagnostic: a
\* returned catalogue has no entry without variants (whether the line had a
\* name only, was empty, or had an unmatched parenthesis), and the tuple loop
\* takes every opening parenthesis of a line at most once, so it ends.
C29_ParserTotal ==
    /\ ret.pc = "returned" =>
          \A k \in 1..Len(ret.blocks) : ret.blocks[k].variants >= 1
    /\ ret.pc = "find" => ret.dimensions <= OpeningParens

-----------------------------------------------------------------------------
(* The aspect-ratio penalty *)

FracEq(a, b) == a.num * b.den = b.num * a.den

-----------------------------------------------------------------------------
(* The swap and move perturbations *)

\* the nodes whose block differs across the step
Reassigned == {i \in NodeIds : tree'[i].block_id # tree[i].block_id}

\* root and every parent, left and right link are the same across the step
LinksKept ==
    /\ root_id' = root_id
    /\ DOMAIN tree' = DOMAIN tree
    /\ \A i \in NodeIds : /\ tree'[i].parent = tree[i].parent
                           /\ tree'[i].left = tree[i].left
                           /\ tree'[i].right = tree[i].right

\* nodes a and b exchanged their block index and their variant index
Exchanged(a, b) ==
    /\ tree'[a].block_id = tree[b].block_id
    /\ tree'[b].block_id = tree[a].block_id
    /\ tree'[a].current_dim_idx = tree[b].current_dim_idx
    /\ tree'[b].current_dim_idx = tree[a].current_dim_idx

SwapStep == lastCall'.f = "perturb" /\ lastCall'.op \in 4..7 /\ Cardinality(NodeIds) >= 2

\* C31: every swap perturbation (op in 4..7) on a tree with n >= 2 nodes
\* exchanges the block index and the variant index of two distinct nodes, so
\* the block-to-node assignment differs in exactly two nodes afterwards, and
\* it leaves the root and every parent, left and right link unchanged.
C31_SwapExchangesTwoNodes ==
    [][SwapStep =>
         /\ \E a, b \in NodeIds : a # b /\ Exchanged(a, b) /\ Reassigned = {a, b}
         /\ LinksKept]_vars

\* the child of node k on side s (0: left, 1: right) in tree t
ChildOn(t, k, s) == IF s = 0 THEN t[k].left ELSE t[k].right

\* the step is perturb with the draws u_id = u, p_id = p and side_dist = s
MoveStepWith(u, p, s) ==
    /\ lastCall'.f = "perturb" /\ lastCall'.op \in 8..10
    /\ Cardinality(NodeIds) >= 2
    /\ u # p
    /\ tree' = perturb(tree, root_id, lastCall'.op, u, p, 0, s).tree
    /\ root_id' = perturb(tree, root_id, lastCall'.op, u, p, 0, s).root_id

\* what the claim says of the tree after moving u under p on side s
MovedUnder(u, p, s) ==
    LET c == ChildOn(detach(tree, root_id, u).tree, p, s)
    IN  /\ ChildOn(tree', p, s) = u
        /\ tree'[u].parent = p
        /\ ChildOn(tree', u, s) = c
        /\ c # NIL => tree'[c].parent = u
        /\ ChildOn(tree', u, 1 - s) = NIL
        /\ \A i \in NodeIds : /\ tree'[i].block_id = tree[i].block_id
                               /\ tree'[i].current_dim_idx = tree[i].current_dim_idx

\* C32: after a move perturbation (op in 8..10) of node u to a distinct
\* destination p on side s, p's s-child is u, u's s-child is the node that was
\* p's s-child in the tree obtained after detach(u) (with its parent link set
\* to u), u has no child on the other side, and every node's block index and
\* variant index are unchanged.
C32_MoveReattaches ==
    [][\A u, p \in NodeIds : \A s \in 0..1 :
          MoveStepWith(u, p, s) => MovedUnder(u, p, s)]_vars

\* a move has put a node between its new parent and that parent's former
\* child: the node hangs on one side and has its only child on that side
C32_Witness ==
    /\ lastCall.f = "perturb" /\ lastCall.op \in 8..10
    /\ \E u, p \in NodeIds : \E s \in 0..1 :
          /\ u # p
          /\ ChildOn(tree, p, s) = u
          /\ ChildOn(tree, u, s) # NIL
          /\ ChildOn(tree, u, 1 - s) = NIL

-----------------------------------------------------------------------------
(* Properties of one SA run of a worker (multistart and parallel moves) *)

\* worker w is inside an SA run: current_fp and best_in_run are in scope
InSARun(w) == best_in_run[w] # NoFp

\* worker w decides on a proposal: the Metropolis test of lines 406 and 590
Decides(w) == pc[w] \in {"ms_step", "pm_sel"} /\ step'[w] = step[w] + 1

\* best-in-run is not above the current state and is the cheapest of the
\* initial tree and the accepted proposals
BestIsCheapestKept ==
    \A w \in Workers :
       InSARun(w) => /\ best_in_run[w] <= current_fp[w]
                     /\ current_fp[w] \in kept[w]
                     /\ best_in_run[w] = SetMin(kept[w])

\* within a run best-in-run never increases; a decision that does not
\* replace the current state leaves best-in-run as it was
BestNeverWorse ==
    \A w \in Workers :
       /\ (InSARun(w) /\ best_in_run'[w] # NoFp) => best_in_run'[w] <= best_in_run[w]
       /\ (Decides(w) /\ kept'[w] = kept[w] /\ current_fp'[w] = current_fp[w])
             => best_in_run'[w] = best_in_run[w]
       /\ (Decides(w) /\ current_fp'[w] # current_fp[w])
             => kept'[w] = kept[w] \cup {current_fp'[w]}

\* C33: within one SA run (multistart and parallel moves), at every point
\* best-in-run cost <= current cost, best-in-run cost never increases, and
\* best-in-run equals the minimum-cost state among the initial tree and all
\* accepted proposals; a rejected proposal leaves the current state and
\* best-in-run unchanged.
C33_BestInRun == [](BestIsCheapestKept) /\ [][BestNeverWorse]_vars

\* a worker has accepted a proposal that costs more than its best-in-run
C33_Witness ==
    \E w \in Workers :
       /\ pc[w] = "ms_step"
       /\ best_in_run[w] < current_fp[w]
       /\ kept[w] = {best_in_run[w], current_fp[w]}

-----------------------------------------------------------------------------
(* Properties of the ledger in parallel tempering *)

Tempering == strategy = "ParallelTempering_Medium" /\ main = "running"

\* the ledger is not above any replica of the vector
LedgerBelowReplicas == \A k \in Workers : global_best_fp <= replicas[k]

\* a worker waits at Barrier 2 and no exchange phase is running
AtBarrier2 == Tempering /\ ~ExchangePhase /\ \E w \in Workers : pc[w] = "pt_b2"

\* the whole team waits at Barrier 2
TeamAtBarrier2 == Tempering /\ \A w \in Workers : pc[w] = "pt_b2"

\* the step that ends the replica initialisation (lines 461-471)
ReplicasInitialised == main = "pt_init" /\ main' = "running"

\* C34: in parallel tempering, after replica initialisation and at Barrier 2
\* of every round (after each exchange phase), the cost stored in the ledger
\* is less than or equal to the cost of every replica in the replica vector.
C34_LedgerBelowReplicas ==
    /\ [](AtBarrier2 => LedgerBelowReplicas)
    /\ [][ReplicasInitialised => LedgerBelowReplicas']_vars

-----------------------------------------------------------------------------
(* Floorplans are evaluated when their cost is read *)

\* C35: every floorplan whose cost is compared or stored (current state,
\* best-in-run, per-worker best, replica, candidate at selection, ledger
\* record and the value returned by run) has been packed and evaluated after
\* its last mutation, so its stored coordinates, chip dimensions and cost are
\* those of its current links and variant indices.
C35_EvaluatedWhenRead == \A f \in ret.read : f.status = "evaluated"

-----------------------------------------------------------------------------
(* What the ledger holds when a tempering run returns *)

TemperingReturned == strategy = "ParallelTempering_Medium" /\ main = "returned"

\* C36: when run() returns from parallel tempering the ledger's cost is less than or equal to the cost of every state that any replica
\* held at any time during the run, states accepted in the middle of a sweep
\* and later replaced by a worse accepted proposal included. (found[w] is
\* the lowest cost worker w evaluated; a proposal cheaper than the state held
\* is always accepted, so the replica held a state of that cost.)
C36_LedgerBelowEveryHeldState ==
    TemperingReturned => \A w \in Workers : global_best_fp <= found[w]

\* what the ledger does hold: it is the cheapest replica after the
\* initialisation, it is not above any replica of the vector when the master
\* has finished the ledger update of an exchange phase, and it never rises
\* until run() returns
LedgerBelowExaminedReplicas ==
    /\ [][ReplicasInitialised => global_best_fp' = MinCost(replicas')]_vars
    /\ []((Tempering /\ pc[Master] = "pt_b2") => LedgerBelowReplicas)
    /\ [][(Tempering \/ TemperingReturned') => global_best_fp' <= global_best_fp]_vars

\* a tempering run has returned after the master accepted a state cheaper
\* than the ledger in a sweep and replaced it before the exchange phase
LostImprovement ==
    /\ TemperingReturned
    /\ found[Master] < global_best_fp
    /\ \A k \in Workers : global_best_fp <= replicas[k]

-----------------------------------------------------------------------------
(* The current state of a parallel-moves worker *)

\* worker w is at the acceptance step of lines 584-596
PmDecides(w) == strategy = "ParallelMoves_Fine" /\ pc[w] = "pm_sel"

-----------------------------------------------------------------------------
(* The statistics counters *)

\* C38: for every interleaving of W >= 2 workers, when run() returns the
\* shared counter moves_total equals the total number of Metropolis decisions
\* made by all workers and moves_accepted equals the total number of
\* acceptances (no increment is lost), hence moves_accepted <= moves_total
\* and the reported accept_ratio is at most 1.
C38_CountersExact ==
    ret.main = "returned" =>
        /\ ret.moves_total = ret.decisions
        /\ ret.moves_accepted = ret.acceptances
        /\ ret.moves_accepted <= ret.moves_total

-----------------------------------------------------------------------------
(* The exchange test *)

\* the master is about to test slots xi (hotter) and xi + 1 (colder) and the
\* hotter slot's replica costs no more than the colder slot's
HotterNotWorse ==
    /\ pc[Master] = "pt_exch"
    /\ InverseTemperatureSign(temperatures[xi], temperatures[xi + 1]) < 0
    /\ replicas[xi] <= replicas[xi + 1]

\* C39: in an exchange attempt between slot i (temperature T_i) and slot
\* i+1 (T_{i+1} < T_i), whenever the hotter slot's replica costs no more than
\* the colder slot's the two replicas are swapped, whatever the random draw;
\* a swap can fail only when the hotter slot's cost is strictly greater.
C39_BetterHotterAlwaysSwaps ==
    [][HotterNotWorse => /\ replicas' = SwapSlots(replicas, xi)
                         /\ attempts'[Len(attempts')].swapped]_vars

\* an attempt with a strictly cheaper hotter replica has swapped, after an
\* attempt with a dearer hotter replica that did not
C39_Witness ==
    /\ Len(attempts) >= 2
    /\ attempts[1].cost1 > attempts[1].cost2 /\ ~attempts[1].swapped
    /\ attempts[2].cost1 < attempts[2].cost2 /\ attempts[2].swapped
    /\ origin[1] = 2 /\ origin[2] = 1

-----------------------------------------------------------------------------
(* One placement and the skyline *)

\* the skyline a contour represents: the height of the last entry at or
\* before the coordinate p
Skyline(c, p) ==
    LET S == {k \in DOMAIN c : k <= p} IN IF S = {} THEN 0 ELSE c[SetMax(S)]

RECURSIVE Placements(_, _, _)
\* the placements dfs_pack makes from node_id on, in order, each with the
\* contour before and after it
Placements(st, node_id, g) ==
    IF node_id = NIL THEN [st |-> st, log |-> << >>]
    ELSE LET st1 == PlaceNode(st, node_id, g)
             n == st1.tree[node_id]
             rec == [before |-> st.contour, after |-> st1.contour,
                     x |-> n.x, y |-> n.y, w |-> n.width, h |-> n.height]
             L == Placements(st1, n.left, g)
             R == Placements(L.st, n.right, g)
         IN  [st |-> R.st, log |-> <<rec>> \o L.log \o R.log]

\* the placements of pack() on the tree t
PackPlacements(t, root, g) ==
    IF root = NIL THEN << >>
    ELSE Placements([tree |-> t, contour |-> [q \in {0} |-> 0], ub |-> FALSE],
                    root, g).log

\* the coordinates at which two contours with integer keys can differ
Coordinates(rec) ==
    0..(SetMax((DOMAIN rec.before) \cup (DOMAIN rec.after) \cup {rec.x + rec.w}) + 1)

\* the skyline changed on [x, x+w) only, to y+h, and the keys are the old
\* ones outside [x, x+w) together with x and x+w
OnlyIntervalRaised(rec) ==
    /\ \A p \in Coordinates(rec) :
          Skyline(rec.after, p) = IF rec.x <= p /\ p < rec.x + rec.w
                                  THEN rec.y + rec.h
                                  ELSE Skyline(rec.before, p)
    /\ DOMAIN rec.after =
          {k \in DOMAIN rec.before : k < rec.x \/ k >= rec.x + rec.w}
             \cup {rec.x, rec.x + rec.w}

\* C40: placing one node at [x, x+w) with height h changes the skyline
\* represented by the contour only on [x, x+w), where it becomes y+h; at
\* every x-coordinate outside that interval the skyline height is the same
\* as before the placement, and the contour keys stay strictly increasing
\* (the keys of the map: the old keys outside the interval, x and x+w).
C40_PlacementFrame ==
    [][lastCall'.f = "pack" =>
          \A g \in BOOLEAN :
             LET log == PackPlacements(tree, root_id, g)
             IN  \A k \in 1..Len(log) : OnlyIntervalRaised(log[k])]_vars

\* a pack has run in which one placement erased an entry inside its
\* interval and inserted a right edge, above the floor, that the contour did
\* not hold
C40_Witness ==
    /\ lastCall.f = "pack"
    /\ LET log == PackPlacements(tree, root_id, TRUE)
       IN  \E k \in 1..Len(log) :
              /\ \E q \in DOMAIN log[k].before :
                    log[k].x < q /\ q < log[k].x + log[k].w
              /\ log[k].x + log[k].w \notin DOMAIN log[k].before
              /\ log[k].after[log[k].x + log[k].w] > 0
              /\ log[k].y > 0

====
